---- MODULE Spec2Model ----
(***************************************************************************)
(* Reviewporter: the reviewer-assignment run of                            *)
(* AddReviewersServiceImpl::add_reviewers (azure/add_reviewers_service.rs) *)
(* against the Azure gateway (AzureTeamService, AzurePullRequestService).  *)
(*                                                                         *)
(* One behaviour is one run of add_reviewers.  Every `.await` on a gateway *)
(* call is a step: the gateway answers with a value or with an error.      *)
(* Spec runs it against every small directory; SpecSelection against a     *)
(* directory with larger teams, SpecScenario against the fixture of the    *)
(* tests, SpecRerun twice in a row against a directory that does not       *)
(* change.                                                                 *)
(* An Identifier is a natural number (the tests build them from usize);    *)
(* a TeamMember is represented by its id, its display name being a         *)
(* function of the person, so the caller's predicate on names is the set   *)
(* of persons it accepts.                                                  *)
(***************************************************************************)
EXTENDS Integers, Sequences, FiniteSets, TLC

(* ---------------------------- bounds ----------------------------------- *)
NumIds == 3
MaxRoster == 2
MaxReviewers == 1
MaxTarget == 2
NumTeams == 2
NumPersons == 5
MaxStream == 3
MaxReruns == 1

(* ------------------------- value universe ------------------------------ *)
Ids == 0 .. (NumIds - 1)

\* The author of the pull request: the identifiers being interchangeable,
\* the snapshots all name the same one (PullRequest::new of the tests).
author_id == 0

\* Option::None of AzureTeam.required_reviewers_team and of the resolver's team.
None == "None"

\* PullRequestStatus (api.rs).
PullRequestStatus == {"Abandoned", "Active", "NotSet", "All", "Completed"}

\* The name of the all-members team (AddReviewersServiceImpl.team_name).
team_name == "fake_team_name"

\* Names of the configured development teams, in configuration order.
DevTeamNames == <<"Team_1", "Team_2", "Team_3", "Team_4">>

\* Name of the required-reviewers team a development team may be paired with.
required_reviewers_team_id == "fake_required_reviewers_team_id"

SeqsUpTo(S, n) == UNION {[1 .. k -> S] : k \in 0 .. n}

Range(s) == {s[i] : i \in 1 .. Len(s)}

\* Vec<TeamMember> answers of team_members: any sequence, repeats included.
Rosters == SeqsUpTo(Ids, MaxRoster)

\* PullRequestReviewer, reduced to the fields add_reviewers reads.
PullRequestReviewer == [id : Ids, is_required : BOOLEAN]

\* PullRequest.reviewers: the gateway lists each reviewer of a pull request once.
ReviewerLists ==
    {r \in SeqsUpTo(PullRequestReviewer, MaxReviewers) :
        \A i, j \in 1 .. Len(r) : i < j => r[i].id < r[j].id}

\* PullRequest snapshots, reduced to status, created_by.id and reviewers.
PullRequest ==
    [status : PullRequestStatus, created_by : {author_id}, reviewers : ReviewerLists]

NoPullRequest == [status |-> "NotSet", created_by |-> author_id, reviewers |-> <<>>]

\* AzureTeam {name, required_reviewers_team}.
AzureTeam(i, req) == [name |-> DevTeamNames[i], required_reviewers_team |-> req]

\* ReviewersConfig.teams: NumTeams teams, one of them paired with the
\* required-reviewers team (Stubs::teams pairs the first of two).
TeamConfigs ==
    {[i \in 1 .. NumTeams |->
        AzureTeam(i, IF i = p THEN required_reviewers_team_id ELSE None)] :
        p \in 1 .. NumTeams}

\* ReviewersConfig {required_reviewers_count, teams}.
ReviewersConfig == [required_reviewers_count : 0 .. MaxTarget, teams : TeamConfigs]

(* ------------------------------ state ---------------------------------- *)
VARIABLES
    config,                  \* ReviewersConfig of the service
    is_on_vacation,          \* the persons the caller's predicate accepts
    pc,                      \* position of the run
    calls,                   \* gateway calls issued so far, in order
    all_members,             \* roster of team_name, once fetched
    pull_request,            \* the snapshot, once fetched
    required_reviwers_left,  \* open required slots
    team_index,              \* resolver loop: index of the next team
    members,                 \* resolver loop: the roster just fetched
    team_members,            \* roster of the author's team
    team,                    \* index of the author's team, 0 for None
    required_reviewers,      \* roster of the required-reviewers team
    selected,                \* what add_required_reviwers pushed
    new_reviewers,           \* working list of identifiers
    new_reviwers,            \* the tagged list handed to the submission
    shuffles,                \* invocations of shuffle_teams
    result,                  \* "None" while running, then "Ok" or "Err"
    error,                   \* index in calls of the call whose error is returned
    gateway,                 \* what the Azure gateway may answer to each fetch
    shuffle_teams,           \* the TeamMembersShuffler of the service
    runs,                    \* runs of add_reviewers completed before this one
    users,                   \* report: the names the include_user predicate accepts
    server,                  \* report: what the gateway may answer to each fetch
    report_pc,               \* report: position of pull_requests
    project_teams,           \* report: the team list, once fetched
    dev_team_members,        \* report: the roster of the team, once fetched
    requests_iter,           \* report: the included members not asked yet
    member,                  \* report: the member whose request is awaited
    waiting_for_review,      \* report: RepoRequests gathered by try_join_all
    waiting_by_reviewers,    \* report: RepoRequests gathered by try_join_all
    response,                \* report: the list the gateway answered last
    results,                 \* report: the ReviewerRequests pushed so far
    outcomes,                \* report: how each member request resolved
    report_result            \* report: "None" while running, then "Ok" or "Err"

vars == <<config, is_on_vacation, pc, calls, all_members, pull_request,
          required_reviwers_left, team_index, members, team_members, team,
          required_reviewers, selected, new_reviewers, new_reviwers,
          shuffles, result, error, gateway, shuffle_teams, runs,
          users, server, report_pc, project_teams, dev_team_members,
          requests_iter, member, waiting_for_review, waiting_by_reviewers,
          response, results, outcomes, report_result>>

(* --------------------------- gateway log ------------------------------- *)
Call(fn, arg) == [fn |-> fn, arg |-> arg, status |-> "pending"]

Answered(c) == [c EXCEPT !.status = "ok"]

Failed(c) == [c EXCEPT !.status = "err"]

\* A future dropped by try_join when its sibling failed.
Dropped(c) == IF c.status = "pending" THEN [c EXCEPT !.status = "dropped"] ELSE c

IsSubmission(c) == c.fn = "add_reviewers_to_pull_request"

(* ------------------------- pure computations --------------------------- *)
\* usize::saturating_sub.
saturating_sub(a, b) == IF a > b THEN a - b ELSE 0

\* Iterator::filter over a Vec, keeping the order.
RECURSIVE FilterSeq(_, _)
FilterSeq(s, keep) ==
    IF s = <<>> THEN <<>>
    ELSE (IF Head(s) \in keep THEN <<Head(s)>> ELSE <<>>) \o FilterSeq(Tail(s), keep)

\* Variant: chain instead of interleave, all of a before all of b.
RECURSIVE interleave_chained(_, _)
interleave_chained(a, b) ==
    IF a = <<>> THEN b ELSE <<Head(a)>> \o interleave_chained(Tail(a), b)

\* itertools::Itertools::interleave: alternate, starting with a; when one
\* side is exhausted the other is drained.
RECURSIVE interleave(_, _)
interleave(a, b) ==
    IF a = <<>> THEN b ELSE <<Head(a)>> \o interleave(b, Tail(a))

\* The orders slice::shuffle can leave a Vec in: every permutation.
Shuffled(s) ==
    {[i \in 1 .. Len(s) |-> s[p[i]]] :
        p \in {q \in [1 .. Len(s) -> 1 .. Len(s)] :
                  \A i, j \in 1 .. Len(s) : q[i] = q[j] => i = j}}

\* Variant: the shuffler of the service is not consulted, the rosters are
\* always shuffled.
ShuffleTeams_always(shuffler, s) == Shuffled(s)

\* The two TeamMembersShuffler functions of the crate.
TeamMembersShuffler == {"shuffle_teams_members", "fake_shuffle_teams"}

\* The orders one roster can have after (self.shuffle_teams)(..): the fake
\* shuffler of the tests leaves both rosters as they are.
ShuffleTeams(shuffler, s) ==
    IF shuffler = "fake_shuffle_teams" THEN {s} ELSE Shuffled(s)

\* existing_reviewers: the ids of pull_request.reviewers, as a HashSet.
existing_reviewers(pr) == {pr.reviewers[i].id : i \in 1 .. Len(pr.reviewers)}

\* Variant: the is_required filter is missing, every reviewer is counted.
required_reviwers_count_all(pr) == Len(pr.reviewers)

\* required_reviwers_count: the reviewers of the snapshot flagged required.
required_reviwers_count(pr) ==
    Cardinality({i \in 1 .. Len(pr.reviewers) : pr.reviewers[i].is_required})

\* required_reviwers_left.
RequiredLeft(cfg, pr) ==
    saturating_sub(cfg.required_reviewers_count, required_reviwers_count(pr))

\* Variant: the closure does not ask is_on_vacation.
can_be_added_on_vacation(id, pr, vacation) ==
    /\ pr.created_by # id
    /\ id \notin existing_reviewers(pr)

\* The closure handed to add_required_reviwers as can_be_added.
can_be_added(id, pr, vacation) ==
    /\ pr.created_by # id
    /\ id \notin existing_reviewers(pr)
    /\ id \notin vacation

\* Variant: the required-reviewers stream does not consult team_members_ids.
required_can_be_added_any_pool(id, pr, vacation, team_members_ids) ==
    can_be_added(id, pr, vacation)

\* The filter of the required-reviewers stream.
required_can_be_added(id, pr, vacation, team_members_ids) ==
    can_be_added(id, pr, vacation) /\ id \notin team_members_ids

\* Variant: only the first candidate of the merge is pushed.
Selection_first_only(peers, required, pr, vacation) ==
    LET merged ==
            interleave(
                FilterSeq(peers, {id \in Range(peers) : can_be_added(id, pr, vacation)}),
                FilterSeq(required,
                    {id \in Range(required) :
                        required_can_be_added(id, pr, vacation, Range(peers))}))
    IN IF merged = <<>> THEN <<>> ELSE <<Head(merged)>>

\* Variant: the peers are pushed in the reverse of their shuffled order.
Selection_reversed(peers, required, pr, vacation) ==
    LET kept == FilterSeq(peers, {id \in Range(peers) : can_be_added(id, pr, vacation)})
    IN interleave(
        [i \in 1 .. Len(kept) |-> kept[Len(kept) - i + 1]],
        FilterSeq(required,
            {id \in Range(required) :
                required_can_be_added(id, pr, vacation, Range(peers))}))

\* What add_required_reviwers pushes, given the two shuffled rosters.
Selection(peers, required, pr, vacation) ==
    interleave(
        FilterSeq(peers, {id \in Range(peers) : can_be_added(id, pr, vacation)}),
        FilterSeq(required,
            {id \in Range(required) :
                required_can_be_added(id, pr, vacation, Range(peers))}))

\* Variant: the members on vacation are dropped instead of chained last.
VacationOrder_without_vacation(roster, vacation) ==
    FilterSeq(roster, Range(roster) \ vacation)

\* Variant: no partition, the roster is chained as fetched.
VacationOrder_as_fetched(roster, vacation) == roster

\* partition by is_on_vacation, then not_on_vacation.chain(on_vacation).
VacationOrder(roster, vacation) ==
    FilterSeq(roster, Range(roster) \ vacation) \o FilterSeq(roster, vacation)

\* Variant: the fill filter does not reject the author.
fill_filter_keeps_author(id, pr, new_reviewers_set) ==
    /\ id \notin new_reviewers_set
    /\ id \notin existing_reviewers(pr)

\* Variant: the fill filter does not consult the working list.
fill_filter_ignores_working(id, pr, new_reviewers_set) ==
    /\ pr.created_by # id
    /\ id \notin existing_reviewers(pr)

\* Variant: the fill filter does not consult existing_reviewers.
fill_filter_ignores_existing(id, pr, new_reviewers_set) ==
    /\ pr.created_by # id
    /\ id \notin new_reviewers_set

\* The filter of the fill phase.
fill_filter(id, pr, new_reviewers_set) ==
    /\ pr.created_by # id
    /\ id \notin new_reviewers_set
    /\ id \notin existing_reviewers(pr)

\* Variant: new_reviewers_set is taken before the selection, when the working
\* list is still empty.
Fill_stale_set(roster, pr, vacation, working) ==
    FilterSeq(VacationOrder(roster, vacation),
              {id \in Range(roster) : fill_filter(id, pr, {})})

\* What the fill phase pushes after the working list.
Fill(roster, pr, vacation, working) ==
    FilterSeq(VacationOrder(roster, vacation),
              {id \in Range(roster) : fill_filter(id, pr, Range(working))})

\* Variant: the comparison is >= instead of >.
is_required_at_inclusive(index, left) == saturating_sub(left, index) >= 0

\* Variant: the operands of saturating_sub are exchanged.
is_required_at_swapped(index, left) == saturating_sub(index, left) > 0

\* is_required of the entry at 0-based position index.
is_required_at(index, left) == saturating_sub(left, index) > 0

\* The enumerate().map() that builds Vec<NewPullRequestReviewer>.
Tagged(working, left) ==
    [i \in 1 .. Len(working) |->
        [id |-> working[i], is_required |-> is_required_at(i - 1, left)]]

(* ------------------------------- Init ---------------------------------- *)
\* The caller's is_on_vacation predicates.  Both filters reject the author by
\* id whatever the predicate says of them, so the author's own answer is
\* fixed to false.
Vacations == SUBSET (Ids \ {author_id})

\* The teams the service asks the gateway about.
TeamNames == {team_name, required_reviewers_team_id} \cup Range(DevTeamNames)

\* The gateway: each team_members(name) answers with one of the rosters of
\* that name or with an error, obtain_pull_request with one of the snapshots
\* or with an error.
AzureApi ==
    [team_members |-> [n \in TeamNames |-> Rosters],
     obtain_pull_request |-> PullRequest]

\* Result<Vec<_>> of a fetch of the report, and the fetch not answered yet.
Unfetched == [status |-> "pending", value |-> <<>>]

Ok(value) == [status |-> "ok", value |-> value]

Err == [status |-> "err", value |-> <<>>]

\* The state of the report while the add-reviewers command runs: the two
\* commands are separate invocations of the program, pull_requests is not
\* called.
NoReport ==
    /\ users = {}
    /\ server = None
    /\ report_pc = "idle"
    /\ project_teams = Unfetched
    /\ dev_team_members = Unfetched
    /\ requests_iter = <<>>
    /\ member = None
    /\ waiting_for_review = <<>>
    /\ waiting_by_reviewers = <<>>
    /\ response = None
    /\ results = <<>>
    /\ outcomes = <<>>
    /\ report_result = "None"

\* State after AddReviewersServiceImpl::new: nothing fetched yet.
Constructed ==
    /\ pc = "idle"
    /\ calls = <<>>
    /\ all_members = <<>>
    /\ pull_request = NoPullRequest
    /\ required_reviwers_left = 0
    /\ team_index = 1
    /\ members = <<>>
    /\ team_members = <<>>
    /\ team = 0
    /\ required_reviewers = <<>>
    /\ selected = <<>>
    /\ new_reviewers = <<>>
    /\ new_reviwers = <<>>
    /\ shuffles = 0
    /\ result = "None"
    /\ error = 0

Init ==
    /\ config \in ReviewersConfig
    /\ is_on_vacation \in Vacations
    /\ gateway = AzureApi
    /\ shuffle_teams = "shuffle_teams_members"
    /\ runs = 0
    /\ Constructed
    /\ NoReport

(* --------------- a directory with larger teams (selection) -------------- *)
\* The persons of the larger directory; the author is person 0 again.
Persons == 0 .. (NumPersons - 1)

\* Rosters of the larger directory: at most MaxStream entries, repeats included.
StreamRosters == SeqsUpTo(Persons, MaxStream)

\* Rosters of its first development team: the author's own team, or an empty
\* one; its other development teams are empty.
PeerRosters == {r \in StreamRosters : r = <<>> \/ author_id \in Range(r)}

\* Its snapshots: active without reviewers, active with the last person as
\* an optional reviewer, abandoned.
StreamSnapshots ==
    {[status |-> "Active", created_by |-> author_id, reviewers |-> <<>>],
     [status |-> "Active", created_by |-> author_id,
      reviewers |-> <<[id |-> NumPersons - 1, is_required |-> FALSE]>>],
     [status |-> "Abandoned", created_by |-> author_id, reviewers |-> <<>>]}

\* The all-members team lists every person once, in id order.
EveryPerson == [i \in 1 .. NumPersons |-> i - 1]

StreamApi ==
    [team_members |->
        [n \in TeamNames |->
            IF n = team_name THEN {EveryPerson}
            ELSE IF n = required_reviewers_team_id THEN StreamRosters
            ELSE IF n = DevTeamNames[1] THEN PeerRosters
            ELSE {<<>>}],
     obtain_pull_request |-> StreamSnapshots]

\* A run against the larger directory, of a service built by
\* new_with_shuffler with the shuffler that leaves the rosters as fetched
\* (every order of a roster being itself a roster the directory can answer
\* with); two persons may be out of office.
InitSelection ==
    /\ config \in ReviewersConfig
    /\ is_on_vacation \in SUBSET {NumPersons - 3, NumPersons - 2}
    /\ gateway = StreamApi
    /\ shuffle_teams = "fake_shuffle_teams"
    /\ runs = 0
    /\ Constructed
    /\ NoReport

(* ------------- the directory of the new_reviewers_added test ------------ *)
\* The fixture of test::new_reviewers_added with the identifiers counted from
\* 1: the author 1 is in the first development team [1,2,3], which is paired
\* with the required-reviewers team [4,5]; the all-members team is [1..9].
ScenarioPeers == <<1, 2, 3>>

ScenarioRequired == <<4, 5>>

ScenarioAll == <<1, 2, 3, 4, 5, 6, 7, 8, 9>>

ScenarioPullRequest ==
    [status |-> "Active", created_by |-> Head(ScenarioPeers), reviewers |-> <<>>]

\* The fixture and its neighbours: rosters in another order or overlapping,
\* an empty first team, a snapshot with a required reviewer, an abandoned one.
ScenarioApi ==
    [team_members |->
        [n \in TeamNames |->
            IF n = team_name THEN {ScenarioAll}
            ELSE IF n = required_reviewers_team_id
                 THEN {ScenarioRequired, <<5, 4>>, <<2, 4, 6>>}
            ELSE IF n = DevTeamNames[1]
                 THEN {ScenarioPeers, <<3, 1, 2>>, <<>>}
            ELSE {<<>>}],
     obtain_pull_request |->
        {ScenarioPullRequest,
         [ScenarioPullRequest EXCEPT
            !.reviewers = <<[id |-> 9, is_required |-> TRUE]>>],
         [ScenarioPullRequest EXCEPT !.status = "Abandoned"]}]

\* run_test builds the service by new_with_shuffler(.., fake_shuffle_teams),
\* production by new, which installs shuffle_teams_members.
InitScenario ==
    /\ config \in ReviewersConfig
    /\ is_on_vacation \in SUBSET {2, 8}
    /\ gateway = ScenarioApi
    /\ shuffle_teams \in TeamMembersShuffler
    /\ runs = 0
    /\ Constructed
    /\ NoReport

(* ------------------- a directory that does not change ------------------- *)
\* Rosters that list each member once.
DistinctRosters ==
    {r \in Rosters : \A i, j \in 1 .. Len(r) : r[i] = r[j] => i = j}

\* A directory that answers every fetch of a team with the same roster: the
\* all-members team and the required-reviewers team have any roster, the
\* first development team is empty or the author's, the others are empty.
FixedDirectories ==
    {[n \in TeamNames |->
        IF n = team_name THEN {a}
        ELSE IF n = required_reviewers_team_id THEN {q}
        ELSE IF n = DevTeamNames[1] THEN {t}
        ELSE {<<>>}] :
        a \in DistinctRosters, q \in DistinctRosters,
        t \in {r \in DistinctRosters : r = <<>> \/ author_id \in Range(r)}}

\* The snapshots the first run may get: active and fresh, active with a
\* required reviewer, abandoned.
FirstSnapshots ==
    {[status |-> "Active", created_by |-> author_id, reviewers |-> <<>>],
     [status |-> "Active", created_by |-> author_id,
      reviewers |-> <<[id |-> NumIds - 1, is_required |-> TRUE]>>],
     [status |-> "Abandoned", created_by |-> author_id, reviewers |-> <<>>]}

InitRerun ==
    /\ config \in ReviewersConfig
    /\ is_on_vacation \in SUBSET {1}
    /\ \E d \in FixedDirectories, pr \in FirstSnapshots :
          gateway = [team_members |-> d, obtain_pull_request |-> {pr}]
    /\ shuffle_teams = "shuffle_teams_members"
    /\ runs = 0
    /\ Constructed
    /\ NoReport

(* ------------------------------ actions -------------------------------- *)
\* The state of the report, which no step of add_reviewers touches.
report == <<users, server, report_pc, project_teams, dev_team_members,
            requests_iter, member, waiting_for_review, waiting_by_reviewers,
            response, results, outcomes, report_result>>

inputs == <<config, is_on_vacation, gateway, shuffle_teams, runs, report>>

resolver == <<team_index, members, team_members, team, required_reviewers>>

lists == <<selected, new_reviewers, new_reviwers, shuffles>>

\* `?` on a failed gateway call: add_reviewers returns that error.
ReturnErr(i) ==
    /\ pc' = "done"
    /\ result' = "Err"
    /\ error' = i
    /\ calls' = [k \in 1 .. Len(calls) |->
                    IF k = i THEN Failed(calls[k]) ELSE Dropped(calls[k])]

\* add_reviewers is called: both futures of try_join are started.
AddReviewers ==
    /\ pc = "idle"
    /\ pc' = "join"
    /\ calls' = <<Call("team_members", team_name), Call("obtain_pull_request", "pr")>>
    /\ UNCHANGED <<inputs, all_members, pull_request, required_reviwers_left,
                   resolver, lists, result, error>>

\* Variant: the join does not wait for the other future.
Joined_eager(other) == "joined"

\* try_join: the other future has completed, so the join is complete.
Joined(other) == IF calls[other].status = "ok" THEN "joined" ELSE "join"

\* team_members(team_name) completes.
AllMembersOk ==
    /\ pc = "join" /\ calls[1].status = "pending"
    /\ \E r \in gateway.team_members[team_name] :
        /\ all_members' = r
        /\ calls' = [calls EXCEPT ![1] = Answered(@)]
    /\ pc' = Joined(2)
    /\ UNCHANGED <<inputs, pull_request, required_reviwers_left, resolver,
                   lists, result, error>>

AllMembersErr ==
    /\ pc = "join" /\ calls[1].status = "pending"
    /\ ReturnErr(1)
    /\ UNCHANGED <<inputs, all_members, pull_request, required_reviwers_left,
                   resolver, lists>>

\* obtain_pull_request completes.
PullRequestOk ==
    /\ pc = "join" /\ calls[2].status = "pending"
    /\ \E pr \in gateway.obtain_pull_request :
        /\ pull_request' = pr
        /\ calls' = [calls EXCEPT ![2] = Answered(@)]
    /\ pc' = Joined(1)
    /\ UNCHANGED <<inputs, all_members, required_reviwers_left, resolver,
                   lists, result, error>>

PullRequestErr ==
    /\ pc = "join" /\ calls[2].status = "pending"
    /\ ReturnErr(2)
    /\ UNCHANGED <<inputs, all_members, pull_request, required_reviwers_left,
                   resolver, lists>>

\* Variant: the warning is logged but the early return is missing.
NotActive_continues ==
    /\ pc = "joined"
    /\ pull_request.status # "Active"
    /\ required_reviwers_left' = RequiredLeft(config, pull_request)
    /\ pc' = "resolve"
    /\ UNCHANGED <<inputs, calls, all_members, pull_request, resolver, lists,
                   result, error>>

\* Variant: the early return is missing and nothing else follows; the run
\* never returns.
NotActive_never_returns ==
    /\ pc = "joined"
    /\ pull_request.status # "Active"
    /\ UNCHANGED vars

\* The status check: anything but Active returns Ok(()) at once.
NotActive ==
    /\ pc = "joined"
    /\ pull_request.status # "Active"
    /\ pc' = "done"
    /\ result' = "Ok"
    /\ UNCHANGED <<inputs, calls, all_members, pull_request,
                   required_reviwers_left, resolver, lists, error>>

\* Variant: `if required_reviwers_left > 0` is missing, the required
\* candidates are searched whatever the number of open slots.
RequiredLeftOpen_unguarded ==
    /\ pc = "joined"
    /\ pull_request.status = "Active"
    /\ required_reviwers_left' = RequiredLeft(config, pull_request)
    /\ pc' = "resolve"
    /\ UNCHANGED <<inputs, calls, all_members, pull_request, resolver, lists,
                   result, error>>

\* Active with open required slots: add_required_reviwers starts the resolver.
RequiredLeftOpen ==
    /\ pc = "joined"
    /\ pull_request.status = "Active"
    /\ RequiredLeft(config, pull_request) > 0
    /\ required_reviwers_left' = RequiredLeft(config, pull_request)
    /\ pc' = "resolve"
    /\ UNCHANGED <<inputs, calls, all_members, pull_request, resolver, lists,
                   result, error>>

\* Variant: an empty list is not submitted, the run returns Ok(()) at once.
NoRequiredLeft_skips_empty ==
    /\ pc = "joined"
    /\ pull_request.status = "Active"
    /\ RequiredLeft(config, pull_request) = 0
    /\ required_reviwers_left' = RequiredLeft(config, pull_request)
    /\ new_reviewers' =
          new_reviewers \o Fill(all_members, pull_request, is_on_vacation, new_reviewers)
    /\ new_reviwers' = Tagged(new_reviewers', required_reviwers_left')
    /\ IF new_reviwers' = <<>>
       THEN /\ pc' = "done"
            /\ result' = "Ok"
            /\ UNCHANGED calls
       ELSE /\ calls' = Append(calls, Call("add_reviewers_to_pull_request", "pr"))
            /\ pc' = "submit"
            /\ UNCHANGED result
    /\ UNCHANGED <<inputs, all_members, pull_request, resolver, selected,
                   shuffles, error>>

\* Active with no open required slot: straight to the fill phase, the
\* tagging and the submission call.
NoRequiredLeft ==
    /\ pc = "joined"
    /\ pull_request.status = "Active"
    /\ RequiredLeft(config, pull_request) = 0
    /\ required_reviwers_left' = RequiredLeft(config, pull_request)
    /\ new_reviewers' =
          new_reviewers \o Fill(all_members, pull_request, is_on_vacation, new_reviewers)
    /\ new_reviwers' = Tagged(new_reviewers', required_reviwers_left')
    /\ calls' = Append(calls, Call("add_reviewers_to_pull_request", "pr"))
    /\ pc' = "submit"
    /\ UNCHANGED <<inputs, all_members, pull_request, resolver, selected,
                   shuffles, result, error>>

\* Variant: the return is outside the membership test, the first team wins.
FindTeamOk_first_team ==
    /\ pc = "resolve" /\ team_index <= Len(config.teams)
    /\ \E r \in gateway.team_members[config.teams[team_index].name] :
        /\ members' = r
        /\ calls' = Append(calls,
                Answered(Call("team_members", config.teams[team_index].name)))
        /\ team_members' = r
        /\ team' = team_index
        /\ pc' = "required"
        /\ UNCHANGED team_index
    /\ UNCHANGED <<inputs, all_members, pull_request, required_reviwers_left,
                   required_reviewers, lists, result, error>>

\* find_author_dev_team_members: one iteration of the loop over config.teams.
FindTeamOk ==
    /\ pc = "resolve" /\ team_index <= Len(config.teams)
    /\ \E r \in gateway.team_members[config.teams[team_index].name] :
        /\ members' = r
        /\ calls' = Append(calls,
                Answered(Call("team_members", config.teams[team_index].name)))
        /\ IF pull_request.created_by \in Range(r)
           THEN /\ team_members' = r
                /\ team' = team_index
                /\ pc' = "required"
                /\ UNCHANGED team_index
           ELSE /\ team_index' = team_index + 1
                /\ UNCHANGED <<team_members, team, pc>>
    /\ UNCHANGED <<inputs, all_members, pull_request, required_reviwers_left,
                   required_reviewers, lists, result, error>>

\* Variant: a failed roster fetch is skipped and the scan goes on.
FindTeamErr_skips ==
    /\ pc = "resolve" /\ team_index <= Len(config.teams)
    /\ calls' = Append(calls,
            Failed(Call("team_members", config.teams[team_index].name)))
    /\ team_index' = team_index + 1
    /\ UNCHANGED <<inputs, pc, all_members, pull_request, required_reviwers_left,
                   members, team_members, team, required_reviewers, lists,
                   result, error>>

FindTeamErr ==
    /\ pc = "resolve" /\ team_index <= Len(config.teams)
    /\ calls' = Append(calls,
            Failed(Call("team_members", config.teams[team_index].name)))
    /\ pc' = "done"
    /\ result' = "Err"
    /\ error' = Len(calls) + 1
    /\ UNCHANGED <<inputs, all_members, pull_request, required_reviwers_left,
                   resolver, lists>>

\* Variant: the roster fetched last is returned with None.
FindTeamNone_keeps_members ==
    /\ pc = "resolve" /\ team_index > Len(config.teams)
    /\ team_members' = members
    /\ team' = 0
    /\ pc' = "required"
    /\ UNCHANGED <<inputs, calls, all_members, pull_request,
                   required_reviwers_left, team_index, members,
                   required_reviewers, lists, result, error>>

\* The loop ran out of teams: (Vec::new(), None).
FindTeamNone ==
    /\ pc = "resolve" /\ team_index > Len(config.teams)
    /\ members' = <<>>
    /\ team_members' = <<>>
    /\ team' = 0
    /\ pc' = "required"
    /\ UNCHANGED <<inputs, calls, all_members, pull_request,
                   required_reviwers_left, team_index, required_reviewers,
                   lists, result, error>>

\* Variant: the required-reviewers team is looked up for every author's team,
\* paired or not.
RequiredTeamOf_always(teams, t) ==
    IF t = 0 THEN None ELSE required_reviewers_team_id

\* team.and_then(|team| team.required_reviewers_team.clone()).
RequiredTeamOf(teams, t) ==
    IF t = 0 THEN None ELSE teams[t].required_reviewers_team

\* Variant: each roster is shuffled by a call of its own.
SelectFillSubmit_two_shuffles(required, log) ==
    /\ \E m \in ShuffleTeams(shuffle_teams, team_members),
          r \in ShuffleTeams(shuffle_teams, required) :
        /\ team_members' = m
        /\ required_reviewers' = r
        /\ selected' = Selection(m, r, pull_request, is_on_vacation)
    /\ shuffles' = shuffles + 2
    /\ new_reviewers' =
          selected' \o Fill(all_members, pull_request, is_on_vacation, selected')
    /\ new_reviwers' = Tagged(new_reviewers', required_reviwers_left)
    /\ calls' = Append(log, Call("add_reviewers_to_pull_request", "pr"))
    /\ pc' = "submit"

\* The rest of add_required_reviwers and of add_reviewers up to the next
\* await: shuffle_teams, the interleave onto the working list, the fill
\* phase, the tagging, and the submission call.
SelectFillSubmit(required, log) ==
    /\ \E m \in ShuffleTeams(shuffle_teams, team_members),
          r \in ShuffleTeams(shuffle_teams, required) :
        /\ team_members' = m
        /\ required_reviewers' = r
        /\ selected' = Selection(m, r, pull_request, is_on_vacation)
    /\ shuffles' = shuffles + 1
    /\ new_reviewers' =
          selected' \o Fill(all_members, pull_request, is_on_vacation, selected')
    /\ new_reviwers' = Tagged(new_reviewers', required_reviwers_left)
    /\ calls' = Append(log, Call("add_reviewers_to_pull_request", "pr"))
    /\ pc' = "submit"

\* The roster of the required-reviewers team is fetched.
RequiredOk ==
    /\ pc = "required"
    /\ RequiredTeamOf(config.teams, team) # None
    /\ \E r \in gateway.team_members[RequiredTeamOf(config.teams, team)] :
        SelectFillSubmit(r, Append(calls,
            Answered(Call("team_members", RequiredTeamOf(config.teams, team)))))
    /\ UNCHANGED <<inputs, all_members, pull_request, required_reviwers_left,
                   team_index, members, team, result, error>>

RequiredErr ==
    /\ pc = "required"
    /\ RequiredTeamOf(config.teams, team) # None
    /\ calls' = Append(calls,
            Failed(Call("team_members", RequiredTeamOf(config.teams, team))))
    /\ pc' = "done"
    /\ result' = "Err"
    /\ error' = Len(calls) + 1
    /\ UNCHANGED <<inputs, all_members, pull_request, required_reviwers_left,
                   resolver, lists>>

\* Variant: when nobody can be proposed the submission is skipped.
RequiredNone_skips_empty ==
    /\ pc = "required"
    /\ RequiredTeamOf(config.teams, team) = None
    /\ IF Selection(team_members, <<>>, pull_request, is_on_vacation)
            \o Fill(all_members, pull_request, is_on_vacation, <<>>) = <<>>
       THEN /\ pc' = "done"
            /\ result' = "Ok"
            /\ shuffles' = shuffles + 1
            /\ UNCHANGED <<calls, team_members, required_reviewers, selected,
                           new_reviewers, new_reviwers>>
       ELSE /\ SelectFillSubmit(<<>>, calls)
            /\ UNCHANGED result
    /\ UNCHANGED <<inputs, all_members, pull_request, required_reviwers_left,
                   team_index, members, team, error>>

\* No required-reviewers team: vec![].
RequiredNone ==
    /\ pc = "required"
    /\ RequiredTeamOf(config.teams, team) = None
    /\ SelectFillSubmit(<<>>, calls)
    /\ UNCHANGED <<inputs, all_members, pull_request, required_reviwers_left,
                   team_index, members, team, result, error>>

\* add_reviewers_to_pull_request completes; its result is the run's result.
SubmitOk ==
    /\ pc = "submit"
    /\ calls' = [calls EXCEPT ![Len(calls)] = Answered(@)]
    /\ pc' = "done"
    /\ result' = "Ok"
    /\ UNCHANGED <<inputs, all_members, pull_request, required_reviwers_left,
                   resolver, lists, error>>

\* Variant: a failed submission is attempted once more.
SubmitErr_retries ==
    /\ pc = "submit"
    /\ IF \E i \in 1 .. Len(calls) : IsSubmission(calls[i]) /\ calls[i].status = "err"
       THEN ReturnErr(Len(calls))
       ELSE /\ calls' = Append([calls EXCEPT ![Len(calls)] = Failed(@)],
                               Call("add_reviewers_to_pull_request", "pr"))
            /\ UNCHANGED <<pc, result, error>>
    /\ UNCHANGED <<inputs, all_members, pull_request, required_reviwers_left,
                   resolver, lists>>

SubmitErr ==
    /\ pc = "submit"
    /\ ReturnErr(Len(calls))
    /\ UNCHANGED <<inputs, all_members, pull_request, required_reviwers_left,
                   resolver, lists>>

\* The gateway accepted the list: every submitted identifier is now a
\* reviewer of the pull request, and add_reviewers is run once more by a
\* freshly built service with the same configuration and predicate.
Rerun ==
    /\ runs < MaxReruns
    /\ pc = "done"
    /\ result = "Ok"
    /\ \E i \in 1 .. Len(calls) : IsSubmission(calls[i])
    /\ gateway' = [gateway EXCEPT !.obtain_pull_request =
                      {[pull_request EXCEPT !.reviewers = @ \o new_reviwers]}]
    /\ runs' = runs + 1
    /\ pc' = "idle"
    /\ calls' = <<>>
    /\ all_members' = <<>>
    /\ pull_request' = NoPullRequest
    /\ required_reviwers_left' = 0
    /\ team_index' = 1
    /\ members' = <<>>
    /\ team_members' = <<>>
    /\ team' = 0
    /\ required_reviewers' = <<>>
    /\ selected' = <<>>
    /\ new_reviewers' = <<>>
    /\ new_reviwers' = <<>>
    /\ shuffles' = 0
    /\ result' = "None"
    /\ error' = 0
    /\ UNCHANGED <<config, is_on_vacation, shuffle_teams, report>>

Next ==
    \/ AddReviewers
    \/ AllMembersOk
    \/ AllMembersErr
    \/ PullRequestOk
    \/ PullRequestErr
    \/ NotActive
    \/ RequiredLeftOpen
    \/ NoRequiredLeft
    \/ FindTeamOk
    \/ FindTeamErr
    \/ FindTeamNone
    \/ RequiredOk
    \/ RequiredErr
    \/ RequiredNone
    \/ SubmitOk
    \/ SubmitErr

Spec == Init /\ [][Next]_vars

SpecSelection == InitSelection /\ [][Next]_vars

SpecScenario == InitScenario /\ [][Next]_vars

NextRerun == Next \/ Rerun

SpecRerun == InitRerun /\ [][NextRerun]_vars

\* Every gateway call that is awaited returns, with a value or an error, and
\* the steps of add_reviewers between two awaits are taken.
Fairness ==
    /\ WF_vars(AddReviewers)
    /\ WF_vars(AllMembersOk \/ AllMembersErr)
    /\ WF_vars(PullRequestOk \/ PullRequestErr)
    /\ WF_vars(NotActive)
    /\ WF_vars(RequiredLeftOpen)
    /\ WF_vars(NoRequiredLeft)
    /\ WF_vars(FindTeamOk \/ FindTeamErr)
    /\ WF_vars(FindTeamNone)
    /\ WF_vars(RequiredOk \/ RequiredErr)
    /\ WF_vars(RequiredNone)
    /\ WF_vars(SubmitOk \/ SubmitErr)

FairSpec == Spec /\ Fairness

FairScenario == SpecScenario /\ Fairness

TypeOK ==
    /\ pc \in {"idle", "join", "joined", "resolve", "required", "submit", "done"}
    /\ result \in {"None", "Ok", "Err"}
    /\ error \in 0 .. Len(calls)
    /\ pull_request \in PullRequest

(* ===================== properties of add_reviewers ===================== *)
\* The run reached the submission: the call is in the gateway log.
Submitted == \E i \in 1 .. Len(calls) : IsSubmission(calls[i])

\* The snapshot was delivered by the join.
SnapshotFetched == Len(calls) >= 2 /\ calls[2].status = "ok"

NoRepeats(s) == \A i, j \in 1 .. Len(s) : s[i] = s[j] => i = j

RequiredFlagged == {i \in 1 .. Len(new_reviwers) : new_reviwers[i].is_required}

\* The reviewers of the snapshot already flagged required.
ExistingRequired ==
    Cardinality({i \in 1 .. Len(pull_request.reviewers) :
                    pull_request.reviewers[i].is_required})

\* required_target - count(existing reviewers flagged required), as an integer.
RequiredDifference == config.required_reviewers_count - ExistingRequired

\* max(0, that difference).
RequiredBudget == IF RequiredDifference > 0 THEN RequiredDifference ELSE 0

Min(a, b) == IF a < b THEN a ELSE b

\* C1 (self-exclusion): in every run that reaches the submission, no entry of
\* the submitted list is the author of the pull request.
C1_SelfExclusion ==
    Submitted =>
        \A i \in 1 .. Len(new_reviwers) :
            new_reviwers[i].id # pull_request.created_by

\* The author is in the all-members roster and in their team's roster, and a
\* non-empty list was submitted.
C1_Witness ==
    /\ Submitted
    /\ new_reviwers # <<>>
    /\ pull_request.created_by \in Range(all_members)
    /\ pull_request.created_by \in Range(team_members)

\* C2 as stated (no duplicates, whatever the rosters): the submitted
\* identifiers are pairwise distinct and none is an existing reviewer.
C2_NoDuplicatesAnyRoster ==
    Submitted =>
        /\ \A i, j \in 1 .. Len(new_reviwers) :
              new_reviwers[i].id = new_reviwers[j].id => i = j
        /\ \A i \in 1 .. Len(new_reviwers) :
              new_reviwers[i].id \notin existing_reviewers(pull_request)

\* C2 amended: no submitted identifier is an existing reviewer, and the
\* submitted identifiers are pairwise distinct whenever each roster the run
\* used (all-members, author's team, required-reviewers team) lists every
\* identifier at most once.
C2_NoDuplicates ==
    Submitted =>
        /\ \A i \in 1 .. Len(new_reviwers) :
              \A k \in 1 .. Len(pull_request.reviewers) :
                  new_reviwers[i].id # pull_request.reviewers[k].id
        /\ (NoRepeats(all_members) /\ NoRepeats(team_members)
                /\ NoRepeats(required_reviewers))
            => \A i, j \in 1 .. Len(new_reviwers) :
                  new_reviwers[i].id = new_reviwers[j].id => i = j

\* A submitted person is at once a peer, a member of the required-reviewers
\* team and of the all-members team, the rosters are free of repeats, and an
\* existing reviewer is in the all-members roster.
C2_Witness ==
    /\ Submitted
    /\ NoRepeats(all_members) /\ NoRepeats(team_members) /\ NoRepeats(required_reviewers)
    /\ \E i \in 1 .. Len(new_reviwers) :
          new_reviwers[i].id \in
              (Range(team_members) \cap Range(required_reviewers)) \cap Range(all_members)
    /\ \E k \in 1 .. Len(pull_request.reviewers) :
          pull_request.reviewers[k].id \in Range(all_members)

\* C3 (cardinality): with required_left = max(0, target - existing reviewers
\* flagged required), the number of submitted entries flagged required is
\* min(required_left, length of the submitted list).
C3_Cardinality ==
    Submitted =>
        /\ required_reviwers_left = RequiredBudget
        /\ Cardinality(RequiredFlagged) = Min(RequiredBudget, Len(new_reviwers))

\* An existing reviewer that is not flagged required, open slots equal to the
\* whole target, and a submitted list at least as long as the open slots.
C3_Witness ==
    /\ Submitted
    /\ pull_request.reviewers # <<>>
    /\ ExistingRequired = 0
    /\ required_reviwers_left = config.required_reviewers_count
    /\ required_reviwers_left > 0
    /\ Len(new_reviwers) >= required_reviwers_left

\* C4 as stated (required budget bound): required_left and the number of
\* submitted entries flagged required are both at most the integer
\* difference target - existing reviewers flagged required.
C4_BudgetIsDifference ==
    Submitted =>
        /\ required_reviwers_left <= RequiredDifference
        /\ Cardinality(RequiredFlagged) <= RequiredDifference

\* C4 amended: both are at most max(0, target - existing reviewers flagged
\* required); they are at most the difference itself only when the existing
\* required reviewers do not outnumber the target.
C4_RequiredBudget ==
    Submitted =>
        /\ required_reviwers_left <= RequiredBudget
        /\ Cardinality(RequiredFlagged) <= RequiredBudget
        /\ RequiredDifference >= 0 =>
              /\ required_reviwers_left <= RequiredDifference
              /\ Cardinality(RequiredFlagged) <= RequiredDifference

\* The existing required reviewers outnumber the target and a non-empty list
\* was submitted.
C4_Witness ==
    /\ Submitted
    /\ RequiredDifference < 0
    /\ new_reviwers # <<>>

\* C5 (ordering of flags): in the submitted list the entries flagged required
\* are exactly those at the first required_left positions, so every required
\* entry precedes every optional one.
C5_Ordering ==
    Submitted =>
        /\ \A i \in 1 .. Len(new_reviwers) :
              new_reviwers[i].is_required <=> i <= RequiredBudget
        /\ \A i, j \in 1 .. Len(new_reviwers) :
              (new_reviwers[i].is_required /\ ~new_reviwers[j].is_required) => i < j

\* Required and optional entries both occur, and the selection phase
\* contributed more entries than there are open slots.
C5_Witness ==
    /\ Submitted
    /\ \E i, j \in 1 .. Len(new_reviwers) :
          new_reviwers[i].is_required /\ ~new_reviwers[j].is_required
    /\ Len(selected) > required_reviwers_left

IsFetch(c) == c.fn \in {"team_members", "obtain_pull_request"}

\* C6 (fail-fast): once a fetch of the run has failed (the snapshot, the
\* all-members roster, a configured team's roster or the required-reviewers
\* roster), the run has returned that error and the submission is not, and
\* never gets, invoked.
C6_FailFast ==
    \A i \in 1 .. Len(calls) :
        (IsFetch(calls[i]) /\ calls[i].status = "err") =>
            /\ pc = "done"
            /\ result = "Err"
            /\ error = i
            /\ ~Submitted
            /\ new_reviwers = <<>>

\* The roster of the required-reviewers team failed, after the join and the
\* resolver had succeeded.
C6_Witness ==
    /\ Len(calls) >= 4
    /\ calls[Len(calls)].fn = "team_members"
    /\ calls[Len(calls)].arg = required_reviewers_team_id
    /\ calls[Len(calls)].status = "err"

\* C7 (inactive pull request): when the snapshot's status is not Active, the
\* run issues no gateway call beyond the two of the join (no team lookup, no
\* submission), never shuffles, computes no list, and, the join having
\* delivered both values, returns Ok.
C7_Inactive ==
    (SnapshotFetched /\ pull_request.status # "Active") =>
        /\ Len(calls) = 2
        /\ shuffles = 0
        /\ new_reviwers = <<>>
        /\ pc \in {"join", "joined", "done"}
        /\ (pc = "done" /\ calls[1].status = "ok") => result = "Ok"

\* A run on an abandoned pull request has returned.
C7_Witness ==
    /\ pc = "done"
    /\ result = "Ok"
    /\ pull_request.status = "Abandoned"
    /\ calls[1].status = "ok" /\ calls[2].status = "ok"

\* C8 (single terminal mutation): the submission is invoked at most once, only
\* after every earlier call of the run has completed successfully, it is the
\* last call of the run, and its failure is returned without another attempt.
C8_SingleSubmission ==
    \A i \in 1 .. Len(calls) :
        IsSubmission(calls[i]) =>
            /\ i = Len(calls)
            /\ \A j \in 1 .. (i - 1) : IsFetch(calls[j]) /\ calls[j].status = "ok"
            /\ calls[i].status = "pending" <=> pc = "submit"
            /\ calls[i].status = "ok" <=> (pc = "done" /\ result = "Ok")
            /\ calls[i].status = "err" <=> (pc = "done" /\ result = "Err" /\ error = i)

\* The submission failed after the resolver and the required-reviewers roster
\* had been fetched.
C8_Witness ==
    /\ Len(calls) >= 5
    /\ IsSubmission(calls[Len(calls)])
    /\ calls[Len(calls)].status = "err"
    /\ pc = "done"

\* The calls of the resolver: rosters of configured teams, in issue order.
RECURSIVE ResolverCalls(_)
ResolverCalls(log) ==
    IF log = <<>> THEN <<>>
    ELSE IF Head(log).fn = "team_members"
            /\ \E k \in 1 .. Len(config.teams) : config.teams[k].name = Head(log).arg
         THEN <<Head(log)>> \o ResolverCalls(Tail(log))
         ELSE ResolverCalls(Tail(log))

\* The resolver fetches the k-th configured team k-th, each after the one
\* before it has answered, and none after the team it returned.
C9_InOrderNoneAfterMatch ==
    LET rc == ResolverCalls(calls) IN
        /\ Len(rc) <= Len(config.teams)
        /\ \A k \in 1 .. Len(rc) :
              /\ rc[k].arg = config.teams[k].name
              /\ k < Len(rc) => rc[k].status = "ok"
        /\ team # 0 =>
              /\ Len(rc) = team
              /\ pull_request.created_by \in Range(team_members)
        /\ (pc = "resolve") => (team = 0 /\ Len(rc) = team_index - 1)

\* A step in which a configured team's roster arrives: a roster with the author
\* ends the scan with that team and that roster, one without moves on.
C9_FirstMatchStep ==
    (Len(ResolverCalls(calls')) = Len(ResolverCalls(calls)) + 1
        /\ calls'[Len(calls')].status = "ok") =>
        IF pull_request.created_by \in Range(members')
        THEN /\ team' = Len(ResolverCalls(calls'))
             /\ team_members' = members'
             /\ pc' = "required"
        ELSE /\ team' = 0
             /\ team_members' = <<>>
             /\ pc' = "resolve"
             /\ team_index' = team_index + 1

\* C9 (membership resolver): the configured teams' rosters are fetched one at
\* a time in configuration order, the first team whose roster contains the
\* author is returned with that roster, and no later team is fetched.
C9_Resolver == [](C9_InOrderNoneAfterMatch) /\ [][C9_FirstMatchStep]_vars

\* The author was found in the first of several configured teams, its
\* required-reviewers roster was fetched and the list submitted.
C9_Witness ==
    /\ Submitted
    /\ team = 1
    /\ Len(config.teams) > 1
    /\ Len(calls) = 5
    /\ calls[4].arg = required_reviewers_team_id

\* The resolver went through every configured team without finding the author.
AuthorInNoTeam ==
    /\ pc \in {"required", "submit", "done"}
    /\ team = 0
    /\ team_index > Len(config.teams)

\* The all-members fill of an empty working list, written out.
FillOnly ==
    LET wanted == {id \in Range(all_members) : id # pull_request.created_by
                                /\ id \notin existing_reviewers(pull_request)}
    IN FilterSeq(all_members, wanted \ is_on_vacation)
       \o FilterSeq(all_members, wanted \cap is_on_vacation)

\* C10 (author in no configured team): with open required slots and the
\* author in no configured team, the run does not fail: the peer list is
\* empty, no required-reviewers roster is fetched, the selection contributes
\* nothing, and the submitted list is the all-members fill alone with its
\* first required_left entries flagged required.
C10_NoTeam ==
    (required_reviwers_left > 0 /\ AuthorInNoTeam) =>
        /\ team_members = <<>>
        /\ required_reviewers = <<>>
        /\ \A i \in 1 .. Len(calls) : calls[i].arg # required_reviewers_team_id
        /\ selected = <<>>
        /\ pc # "required" => Submitted
        /\ result = "Err" => IsSubmission(calls[error])
        /\ Submitted =>
              /\ Len(new_reviwers) = Len(FillOnly)
              /\ \A i \in 1 .. Len(new_reviwers) :
                    /\ new_reviwers[i].id = FillOnly[i]
                    /\ new_reviwers[i].is_required <=> i <= required_reviwers_left

\* Such a run submitted a list with required and optional entries.
C10_Witness ==
    /\ required_reviwers_left > 0
    /\ AuthorInNoTeam
    /\ Submitted
    /\ \E i, j \in 1 .. Len(new_reviwers) :
          new_reviwers[i].is_required /\ ~new_reviwers[j].is_required

\* C11 (no required slots left): once an Active snapshot with required_left
\* = 0 has been fetched (a target of 0, or existing required reviewers that
\* meet or exceed the target), the run never asks for a configured team's
\* roster nor for the required-reviewers roster, never shuffles, and what it
\* submits is the all-members fill alone, every entry flagged optional.
C11_NoSlotsLeft ==
    (SnapshotFetched /\ pull_request.status = "Active" /\ RequiredBudget = 0) =>
        /\ ResolverCalls(calls) = <<>>
        /\ \A i \in 1 .. Len(calls) : calls[i].arg # required_reviewers_team_id
        /\ pc \notin {"resolve", "required"}
        /\ shuffles = 0
        /\ selected = <<>>
        /\ Submitted =>
              /\ Len(new_reviwers) = Len(FillOnly)
              /\ \A i \in 1 .. Len(new_reviwers) :
                    /\ new_reviwers[i].id = FillOnly[i]
                    /\ ~new_reviwers[i].is_required

\* The existing required reviewers meet a positive target, and a non-empty
\* list was submitted and accepted.
C11_Witness ==
    /\ pc = "done"
    /\ result = "Ok"
    /\ Submitted
    /\ config.required_reviewers_count > 0
    /\ RequiredBudget = 0
    /\ new_reviwers # <<>>

(* ================ properties of the selection and the fill ============== *)
\* The selection phase has run.
SelectionDone == pc \in {"submit", "done"} /\ shuffles > 0

\* The peers the selection may offer, in the order shuffle_teams left them.
EligiblePeers ==
    FilterSeq(team_members,
        {id \in Range(team_members) :
            /\ id # pull_request.created_by
            /\ id \notin existing_reviewers(pull_request)
            /\ id \notin is_on_vacation})

\* The members of the required-reviewers team it may offer, in the order
\* shuffle_teams left them.
EligibleRequired ==
    FilterSeq(required_reviewers,
        {id \in Range(required_reviewers) \ Range(team_members) :
            /\ id # pull_request.created_by
            /\ id \notin existing_reviewers(pull_request)
            /\ id \notin is_on_vacation})

\* C12 (interleave): the output of the selection phase is the round-robin
\* merge of the eligible peers and the eligible required-team members: while
\* both streams have a k-th element the peers' one is at position 2k and the
\* required team's one at position 2k+1 (counting from 0), and after the
\* shorter stream the rest of the longer one follows in its own order.
C12_Interleave ==
    SelectionDone =>
        LET p == EligiblePeers
            r == EligibleRequired
            n == Min(Len(p), Len(r))
        IN /\ Len(selected) = Len(p) + Len(r)
           /\ \A k \in 1 .. n :
                 /\ selected[2 * k - 1] = p[k]
                 /\ selected[2 * k] = r[k]
           /\ \A i \in (2 * n + 1) .. Len(selected) :
                 selected[i] = IF Len(p) > n THEN p[i - n] ELSE r[i - n]

\* Two eligible peers and three eligible entries of the required team: two
\* rounds of alternation, then the rest of the required team.
C12_Witness ==
    /\ SelectionDone
    /\ Len(EligiblePeers) = 2
    /\ Len(EligibleRequired) = 3
    /\ Range(EligiblePeers) \cap Range(EligibleRequired) = {}

\* Position in the selection output of the k-th eligible peer.
PeerPosition(k) ==
    IF k <= Len(EligibleRequired) THEN 2 * k - 1 ELSE Len(EligibleRequired) + k

\* C13 as stated (cross-pool de-duplication): a person listed in the
\* author's team and in the required-reviewers team occurs at most once in
\* the selection output.
C13_OfferedOnce ==
    SelectionDone =>
        \A id \in Range(team_members) \cap Range(required_reviewers) :
            Cardinality({i \in 1 .. Len(selected) : selected[i] = id}) <= 1

\* C13 amended: a person listed in the author's team and in the
\* required-reviewers team occurs in the selection output only where the
\* peer stream puts them, hence at most once when the author's team lists
\* every member once; whatever the output holds of the peer roster comes
\* from the peer stream, so the required-team stream has skipped every
\* member whose id is in the peer roster.
C13_CrossPool ==
    SelectionDone =>
        /\ \A id \in Range(team_members) \cap Range(required_reviewers) :
              /\ \A i \in 1 .. Len(selected) :
                    selected[i] = id =>
                        \E k \in 1 .. Len(EligiblePeers) :
                            EligiblePeers[k] = id /\ i = PeerPosition(k)
              /\ NoRepeats(team_members) =>
                    Cardinality({i \in 1 .. Len(selected) : selected[i] = id}) <= 1
        /\ FilterSeq(selected, Range(team_members)) = EligiblePeers

\* An eligible peer and an out-of-office peer are both members of the
\* required-reviewers team, which has offered a third person.
C13_Witness ==
    /\ SelectionDone
    /\ NoRepeats(team_members)
    /\ \E a, b \in Range(team_members) \cap Range(required_reviewers) :
          /\ a \in Range(selected)
          /\ b \in is_on_vacation
    /\ Range(selected) \ Range(team_members) # {}

\* What the fill phase appended to the working list.
FillPart == SubSeq(new_reviewers, Len(selected) + 1, Len(new_reviewers))

\* The members of the all-members roster the fill phase may append.
Fillable ==
    {id \in Range(all_members) :
        /\ id # pull_request.created_by
        /\ id \notin Range(selected)
        /\ id \notin existing_reviewers(pull_request)}

\* C14 (fill phase, out-of-office last): the working list is the selection
\* output followed by the members of the all-members roster that are not the
\* author, not in the selection output and not existing reviewers: those
\* not out of office in roster order, then those out of office in roster
\* order; with required_left = 0 the list is that fill alone, so a candidate
\* not out of office precedes every candidate out of office.
C14_Fill ==
    Submitted =>
        /\ SubSeq(new_reviewers, 1, Len(selected)) = selected
        /\ FillPart = FilterSeq(all_members, Fillable \ is_on_vacation)
                        \o FilterSeq(all_members, Fillable \cap is_on_vacation)
        /\ required_reviwers_left = 0 =>
              /\ selected = <<>>
              /\ \A i, j \in 1 .. Len(new_reviewers) :
                    (new_reviewers[i] \notin is_on_vacation
                        /\ new_reviewers[j] \in is_on_vacation) => i < j

\* After a non-empty selection the fill appended a person not out of office
\* and two persons out of office, the former listed after the latter in the
\* all-members roster.
C14_Witness ==
    /\ Submitted
    /\ selected # <<>>
    /\ Len(FillPart) >= 3
    /\ FillPart[1] \notin is_on_vacation
    /\ FillPart[2] \in is_on_vacation
    /\ FillPart[3] \in is_on_vacation
    /\ \E a, b \in 1 .. Len(all_members) :
          a < b /\ all_members[a] = FillPart[2] /\ all_members[b] = FillPart[1]

\* Positions of the submitted list held by persons not out of office.
NotOnVacation ==
    {i \in 1 .. Len(new_reviwers) : new_reviwers[i].id \notin is_on_vacation}

\* C15 (out-of-office persons are required last): the selection phase never
\* outputs a person out of office; in the submitted list every entry not out
\* of office precedes every entry out of office, whatever required_left is,
\* and an entry out of office is flagged required only if the list holds
\* fewer than required_left entries not out of office.
C15_VacationNotRequired ==
    /\ \A i \in 1 .. Len(selected) : selected[i] \notin is_on_vacation
    /\ Submitted =>
          /\ \A i \in NotOnVacation :
                \A j \in (1 .. Len(new_reviwers)) \ NotOnVacation : i < j
          /\ \A j \in (1 .. Len(new_reviwers)) \ NotOnVacation :
                new_reviwers[j].is_required =>
                    Cardinality(NotOnVacation) < required_reviwers_left

\* A peer is out of office; the submitted list holds one entry not out of
\* office, then an entry out of office flagged required and one flagged
\* optional.
C15_Witness ==
    /\ Submitted
    /\ Range(team_members) \cap is_on_vacation # {}
    /\ selected # <<>>
    /\ Cardinality(NotOnVacation) = 1
    /\ \E i, j \in (1 .. Len(new_reviwers)) \ NotOnVacation :
          new_reviwers[i].is_required /\ ~new_reviwers[j].is_required

\* Round-robin merge of p and r starting with p, position by position.
RoundRobin(p, r) ==
    LET n == Min(Len(p), Len(r)) IN
    [i \in 1 .. (Len(p) + Len(r)) |->
        IF i <= 2 * n
        THEN (IF i % 2 = 1 THEN p[(i + 1) \div 2] ELSE r[i \div 2])
        ELSE (IF Len(p) > n THEN p[i - n] ELSE r[i - n])]

\* The list of the claim: the merge of the eligible peers and the eligible
\* required-team members, each in the order of the fetched roster, then the
\* all-members fill.
MergeThenFill ==
    LET merged == RoundRobin(EligiblePeers, EligibleRequired)
        fillable == {id \in Range(all_members) :
                        /\ id # pull_request.created_by
                        /\ id \notin Range(merged)
                        /\ id \notin existing_reviewers(pull_request)}
    IN merged \o FilterSeq(all_members, fillable \ is_on_vacation)
              \o FilterSeq(all_members, fillable \cap is_on_vacation)

\* The test's fixture itself: target 2, nobody out of office, no existing
\* reviewer, rosters [1,2,3], [4,5] and [1..9].
ScenarioRun ==
    /\ config.required_reviewers_count = 2
    /\ is_on_vacation = {}
    /\ pull_request = ScenarioPullRequest
    /\ members = ScenarioPeers
    /\ required_reviewers = ScenarioRequired
    /\ all_members = ScenarioAll

\* C16 (identity shuffle): with the shuffler that leaves the rosters as
\* fetched, the submitted list is the merge of the eligible peers and the
\* eligible required-team non-peers, both in roster order, followed by the
\* fill, its first required_left entries flagged required; for the fixture it
\* is 2, 4 required, then 3, 5, 6, 7, 8, 9 optional.
C16_IdentityShuffle ==
    (Submitted /\ shuffle_teams = "fake_shuffle_teams") =>
        /\ team_members = (IF shuffles > 0 THEN members ELSE <<>>)
        /\ Len(new_reviwers) = Len(MergeThenFill)
        /\ \A i \in 1 .. Len(new_reviwers) :
              /\ new_reviwers[i].id = MergeThenFill[i]
              /\ new_reviwers[i].is_required <=> i <= required_reviwers_left
        /\ ScenarioRun =>
              new_reviwers =
                  <<[id |-> 2, is_required |-> TRUE],
                    [id |-> 4, is_required |-> TRUE],
                    [id |-> 3, is_required |-> FALSE],
                    [id |-> 5, is_required |-> FALSE],
                    [id |-> 6, is_required |-> FALSE],
                    [id |-> 7, is_required |-> FALSE],
                    [id |-> 8, is_required |-> FALSE],
                    [id |-> 9, is_required |-> FALSE]>>

\* The run on the fixture has submitted its list and the gateway accepted it.
C16_Witness ==
    /\ pc = "done"
    /\ result = "Ok"
    /\ Submitted
    /\ shuffle_teams = "fake_shuffle_teams"
    /\ ScenarioRun
    /\ Len(new_reviwers) = 8

\* The run is over and none of its fetches failed.
FetchesSucceeded ==
    /\ pc = "done"
    /\ \A i \in 1 .. Len(calls) : IsFetch(calls[i]) => calls[i].status = "ok"

\* C17 (submission on a successful active run): a run on an Active pull
\* request whose fetches all succeeded has invoked
\* add_reviewers_to_pull_request exactly once, with the tagged working list,
\* an empty list being submitted like any other.
C17_AlwaysSubmits ==
    (FetchesSucceeded /\ pull_request.status = "Active") =>
        /\ Cardinality({i \in 1 .. Len(calls) : IsSubmission(calls[i])}) = 1
        /\ IsSubmission(calls[Len(calls)])
        /\ Len(new_reviwers) = Len(new_reviewers)
        /\ \A i \in 1 .. Len(new_reviwers) :
              /\ new_reviwers[i].id = new_reviewers[i]
              /\ new_reviwers[i].is_required <=> i <= required_reviwers_left

\* With open required slots and a non-empty all-members roster, an empty
\* list was submitted and accepted.
C17_Witness ==
    /\ FetchesSucceeded
    /\ pull_request.status = "Active"
    /\ result = "Ok"
    /\ new_reviwers = <<>>
    /\ required_reviwers_left > 0
    /\ all_members # <<>>
    /\ calls[Len(calls)].status = "ok"

\* Nobody the run has fetched can be proposed.
NothingToPropose ==
    /\ EligiblePeers = <<>>
    /\ EligibleRequired = <<>>
    /\ \A i \in 1 .. Len(all_members) :
          \/ all_members[i] = pull_request.created_by
          \/ all_members[i] \in existing_reviewers(pull_request)

\* The run returned without a failed fetch, on an Active pull request.
ActiveRunOver ==
    /\ pc = "done"
    /\ SnapshotFetched
    /\ pull_request.status = "Active"
    /\ \A i \in 1 .. Len(calls) : calls[i].status = "err" => IsSubmission(calls[i])

\* C18 as stated (empty candidate pool): the computed list is submitted only
\* if it is non-empty, no submission call being made for an empty list.
C18_SubmittedOnlyIfNonEmpty == Submitted => new_reviwers # <<>>

\* C18 amended: when the candidate pools leave nothing to propose the
\* computed list is empty and the run is not an error for it: the empty list
\* is submitted to the gateway like any other, and the run returns what the
\* submission returns.
C18_EmptyPool ==
    /\ (Submitted /\ NothingToPropose) => new_reviwers = <<>>
    /\ (ActiveRunOver /\ new_reviwers = <<>>) =>
          /\ Submitted
          /\ result = "Ok" <=> calls[Len(calls)].status = "ok"
          /\ result = "Err" <=> calls[Len(calls)].status = "err"

\* The author's team was found and every member of it and of the all-members
\* team is the author or an existing reviewer; the empty list was accepted.
C18_Witness ==
    /\ ActiveRunOver
    /\ result = "Ok"
    /\ team # 0
    /\ Len(team_members) > 1
    /\ Len(all_members) > 1
    /\ NothingToPropose
    /\ Submitted
    /\ new_reviwers = <<>>

(* ========================= properties of a rerun ======================== *)
\* C19 (stability under saturation): once a run's list was accepted and all
\* its identifiers are reviewers of the pull request, a further run with the
\* same rosters, author, configuration and out-of-office predicate selects
\* nobody and computes the empty list.
C19_Saturation ==
    runs > 0 =>
        /\ selected = <<>>
        /\ new_reviewers = <<>>
        /\ new_reviwers = <<>>

\* The first run had added a reviewer (the only reviewer a first snapshot can
\* have is the last person); the second run had an open required
\* slot, a peer of the author and a required-reviewers team to choose from,
\* and its empty list was accepted.
C19_Witness ==
    /\ runs > 0
    /\ pc = "done"
    /\ result = "Ok"
    /\ Submitted
    /\ shuffles > 0
    /\ Range(team_members) \ {pull_request.created_by} # {}
    /\ required_reviewers # <<>>
    /\ \E i \in 1 .. Len(pull_request.reviewers) :
          pull_request.reviewers[i].id # NumIds - 1
    /\ new_reviwers = <<>>

(* ===================== properties of shuffle_teams ===================== *)
\* C20 as stated (shuffle exactly once per run), said of the runs that
\* returned Ok on an Active pull request only: such a run has invoked
\* shuffle_teams exactly one time.
C20_ExactlyOncePerRun ==
    (pc = "done" /\ result = "Ok" /\ pull_request.status = "Active") =>
        shuffles = 1

\* C20 amended: a run invokes shuffle_teams at most once; it has invoked it
\* exactly once when it reaches the submission with open required slots,
\* and not at all when the pull request is not Active, when no required slot
\* is open, or when a fetch failed.
C20_ShuffleCount ==
    /\ shuffles \in {0, 1}
    /\ shuffles = 1 <=> (Submitted /\ RequiredBudget > 0)
    /\ (SnapshotFetched /\ pull_request.status # "Active") => shuffles = 0
    /\ (\E i \in 1 .. Len(calls) : IsFetch(calls[i]) /\ calls[i].status = "err")
          => shuffles = 0

\* A run with open required slots fetched the required-reviewers roster,
\* shuffled once and returned.
C20_Witness ==
    /\ pc = "done"
    /\ shuffles = 1
    /\ RequiredBudget > 0
    /\ required_reviewers # <<>>
    /\ Len(team_members) > 1

\* Position in the selection output of the k-th eligible member of the
\* required-reviewers team.
RequiredPosition(k) ==
    IF k <= Len(EligiblePeers) THEN 2 * k ELSE Len(EligiblePeers) + k

\* The positions of the submitted list that hold the person id.
PositionsOf(id) == {i \in 1 .. Len(new_reviwers) : new_reviwers[i].id = id}

\* Two persons of one pool are submitted in the order the pool has them.
PoolOrderKept(pool) ==
    \A a, b \in 1 .. Len(pool) :
        (a < b /\ pool[a] # pool[b]) =>
            \A i \in PositionsOf(pool[a]) : \A j \in PositionsOf(pool[b]) : i < j

\* C21 as stated (pools shuffled once, order kept): shuffle_teams is invoked
\* at most once, and two persons of the same pool that are both in the
\* submitted list are there in the order the shuffled pool has them.
C21_PoolOrderKept ==
    /\ shuffles <= 1
    /\ Submitted =>
          /\ PoolOrderKept(team_members)
          /\ PoolOrderKept(required_reviewers)

\* The persons a stream of the selection offers are submitted in the order
\* of the shuffled pool, at the positions the merge gives them.
C21_StreamOrder ==
    /\ shuffles <= 1
    /\ Submitted =>
          /\ \A k \in 1 .. Len(EligiblePeers) :
                new_reviwers[PeerPosition(k)].id = EligiblePeers[k]
          /\ \A k \in 1 .. Len(EligibleRequired) :
                new_reviwers[RequiredPosition(k)].id = EligibleRequired[k]
          /\ \A k, l \in 1 .. Len(EligiblePeers) :
                k < l => PeerPosition(k) < PeerPosition(l)
          /\ \A k, l \in 1 .. Len(EligibleRequired) :
                k < l => RequiredPosition(k) < RequiredPosition(l)

\* Once shuffle_teams has run, no step shuffles again or touches the pools
\* and the lists built from them.
C21_NoReshuffle ==
    shuffles > 0 =>
        UNCHANGED <<team_members, required_reviewers, selected, new_reviewers,
                    new_reviwers, shuffles>>

\* C21 amended: shuffle_teams is invoked at most once and nothing reorders
\* the pools afterwards; two persons offered by the same stream of the
\* selection (both eligible peers, or both eligible required-team members
\* that are not peers) are submitted in the order of the shuffled pool.  A
\* person the selection does not offer (out of office, or a required-team
\* member who is also a peer) is placed by the fill or by the peer stream,
\* whatever the order of the pool.
C21_ShuffledOnce == [](C21_StreamOrder) /\ [][C21_NoReshuffle]_vars

\* The shuffle has changed the order of the author's team, two of its
\* members and two members of the required-reviewers team were offered, and
\* the list was accepted.
C21_Witness ==
    /\ pc = "done"
    /\ result = "Ok"
    /\ Submitted
    /\ shuffles = 1
    /\ team_members # members
    /\ Len(EligiblePeers) >= 2
    /\ Len(EligibleRequired) >= 2

(* ========================= properties of the join ====================== *)
\* Both join fetches have answered.
BothFetched ==
    /\ Len(calls) >= 2
    /\ calls[1].status = "ok"
    /\ calls[2].status = "ok"

\* C22 (fan-out, fan-in): the all-members roster and the snapshot are asked
\* for together at the start of the run and either may answer first; no
\* team lookup, shuffle or submission starts before both have answered; and
\* when both have, the state of the run holds the two answers and no trace of
\* their order, so what follows cannot depend on it (a failure of either
\* ends the run with an error in both orders).
C22_FanOutFanIn ==
    /\ calls # <<>> =>
          /\ Len(calls) >= 2
          /\ calls[1].fn = "team_members" /\ calls[1].arg = team_name
          /\ calls[2].fn = "obtain_pull_request"
    /\ (pc = "join" /\ calls[1].status = "pending" /\ calls[2].status = "pending") =>
          /\ ENABLED AllMembersOk
          /\ ENABLED PullRequestOk
    /\ (pc = "join" /\ calls[1].status = "ok") => ENABLED PullRequestOk
    /\ (pc = "join" /\ calls[2].status = "ok") => ENABLED AllMembersOk
    /\ (Len(calls) > 2 \/ shuffles > 0 \/ new_reviwers # <<>>
            \/ pc \in {"joined", "resolve", "required", "submit"}) => BothFetched
    /\ pc = "joined" =>
          /\ calls = <<Answered(Call("team_members", team_name)),
                       Answered(Call("obtain_pull_request", "pr"))>>
          /\ result = "None" /\ error = 0
          /\ team_index = 1 /\ team = 0
          /\ members = <<>> /\ team_members = <<>> /\ required_reviewers = <<>>
          /\ selected = <<>> /\ new_reviewers = <<>> /\ new_reviwers = <<>>
          /\ shuffles = 0 /\ required_reviwers_left = 0
    /\ (pc = "done" /\ Len(calls) = 2
            /\ (calls[1].status = "err" \/ calls[2].status = "err")) =>
          result = "Err"

\* The snapshot has answered while the all-members roster is still awaited.
C22_Witness ==
    /\ pc = "join"
    /\ calls[2].status = "ok"
    /\ calls[1].status = "pending"
    /\ pull_request.status = "Active"

\* The permutation of s in ascending order: one of the orders a shuffle can
\* leave s in, and the same for every order s is given in.
Ascending(s) == CHOOSE p \in Shuffled(s) : \A i, j \in 1 .. Len(p) : i < j => p[i] <= p[j]

\* The list the run submits when the shuffler leaves both pools ascending,
\* everything else being the same.
ReferenceList ==
    LET picked == IF required_reviwers_left > 0
                  THEN Selection(Ascending(team_members), Ascending(required_reviewers),
                                 pull_request, is_on_vacation)
                  ELSE <<>>
    IN Tagged(picked \o Fill(all_members, pull_request, is_on_vacation, picked),
              required_reviwers_left)

IdsOf(list) == {list[i].id : i \in 1 .. Len(list)}

RequiredIdsOf(list) == {list[i].id : i \in {k \in 1 .. Len(list) : list[k].is_required}}

\* C23 (shuffle-independence): the list a run submits and the list the same
\* run would submit with another choice of the shuffler (both pools
\* ascending) hold the same identifiers, have the same length and the same
\* number of entries flagged required; any two choices of the shuffler thus
\* agree on membership and cardinality.
C23_ShuffleIndependence ==
    Submitted =>
        /\ IdsOf(new_reviwers) = IdsOf(ReferenceList)
        /\ Len(new_reviwers) = Len(ReferenceList)
        /\ Cardinality({i \in 1 .. Len(new_reviwers) : new_reviwers[i].is_required})
              = Cardinality({i \in 1 .. Len(ReferenceList) : ReferenceList[i].is_required})

\* The shuffler's choice shows: the submitted list is not the reference list
\* and another person carries the required flag.
C23_Witness ==
    /\ Submitted
    /\ shuffles = 1
    /\ new_reviwers # ReferenceList
    /\ RequiredIdsOf(new_reviwers) # RequiredIdsOf(ReferenceList)

(* ==================== properties of the submitted set =================== *)
\* Every roster the run fetched lists each identifier once.
RostersWithoutRepeats ==
    /\ NoRepeats(all_members)
    /\ NoRepeats(team_members)
    /\ NoRepeats(required_reviewers)

\* C24 (conditional distinctness): when the author's team, the
\* required-reviewers team and the all-members team each list every
\* identifier at most once, the submitted identifiers are pairwise distinct,
\* and a person of the selection output who is also in the all-members
\* roster is submitted once, at their position in the selection output.
C24_Distinct ==
    (Submitted /\ RostersWithoutRepeats) =>
        /\ \A i, j \in 1 .. Len(new_reviwers) :
              i # j => new_reviwers[i].id # new_reviwers[j].id
        /\ \A k \in 1 .. Len(selected) :
              selected[k] \in Range(all_members) => PositionsOf(selected[k]) = {k}

\* Two persons were selected, both listed in the all-members roster, and the
\* fill appended others.
C24_Witness ==
    /\ Submitted
    /\ RostersWithoutRepeats
    /\ Len(selected) >= 2
    /\ Range(selected) \subseteq Range(all_members)
    /\ Len(new_reviwers) > Len(selected)
    /\ Range(team_members) \cap Range(required_reviewers) # {}

\* Neither the author nor an existing reviewer.
Addable(id) ==
    /\ id # pull_request.created_by
    /\ \A k \in 1 .. Len(pull_request.reviewers) : pull_request.reviewers[k].id # id

\* C25 (coverage): in a run that reaches the submission every member of the
\* all-members roster who is neither the author nor an existing reviewer is
\* submitted, out of office or not; the submitted identifiers are exactly
\* those members together with, when required_left > 0, the members of the
\* author's team and of the required-reviewers team who are neither the
\* author, nor existing reviewers, nor out of office.
C25_Coverage ==
    Submitted =>
        /\ \A i \in 1 .. Len(all_members) :
              Addable(all_members[i]) => PositionsOf(all_members[i]) # {}
        /\ IdsOf(new_reviwers) =
              {id \in Range(all_members) : Addable(id)}
              \cup (IF RequiredBudget > 0
                    THEN {id \in Range(team_members) \cup Range(required_reviewers) :
                             Addable(id) /\ id \notin is_on_vacation}
                    ELSE {})

\* With an open required slot the list holds a member of the all-members
\* team who is out of office and a selected person who is not in the
\* all-members roster.
C25_Witness ==
    /\ Submitted
    /\ RequiredBudget > 0
    /\ \E i \in 1 .. Len(all_members) :
          all_members[i] \in is_on_vacation /\ PositionsOf(all_members[i]) # {}
    /\ \E k \in 1 .. Len(selected) : selected[k] \notin Range(all_members)

(* =============== properties of the required-reviewers lookup ============ *)
\* The fetches of the required-reviewers roster.
RequiredFetches ==
    {i \in 1 .. Len(calls) :
        calls[i].fn = "team_members" /\ calls[i].arg = required_reviewers_team_id}

\* The resolver returned a team that names a required-reviewers team.
AuthorTeamPaired ==
    team # 0 /\ config.teams[team].required_reviewers_team # None

\* C26 (required-reviewers roster lookup): the roster of the
\* required-reviewers team is fetched at most once, as the call that follows
\* the resolver's last one, and only when the resolver returned a team that
\* names a required-reviewers team; the selection of such a run has fetched
\* it exactly once.  When the author's team names none, no such fetch is
\* made, the required pool is empty and the selection output is the eligible
\* peers in shuffled order.
C26_RequiredLookup ==
    /\ Cardinality(RequiredFetches) <= 1
    /\ \A i \in RequiredFetches :
          /\ AuthorTeamPaired
          /\ calls[i].arg = config.teams[team].required_reviewers_team
          /\ i = 2 + team + 1
          /\ \A j \in 1 .. (i - 1) : calls[j].status = "ok"
          /\ calls[i - 1].arg = config.teams[team].name
    /\ (shuffles > 0 /\ AuthorTeamPaired) => Cardinality(RequiredFetches) = 1
    /\ (shuffles > 0 /\ team # 0 /\ ~AuthorTeamPaired) =>
          /\ RequiredFetches = {}
          /\ required_reviewers = <<>>
          /\ selected = EligiblePeers

\* The author's team names no required-reviewers team; the shuffle changed
\* its order and both peers of the author were selected.
C26_Witness ==
    /\ pc = "done"
    /\ shuffles > 0
    /\ team # 0
    /\ ~AuthorTeamPaired
    /\ team_members # members
    /\ Len(selected) = 2

(* ============================= termination ============================= *)
\* The list was submitted; the run returned what the submission returned.
EndedSubmitted ==
    /\ Submitted
    /\ \/ result = "Ok"
       \/ result = "Err" /\ IsSubmission(calls[error])

\* A fetch failed before any submission and its error was returned.
EndedFetchError ==
    /\ ~Submitted
    /\ result = "Err"
    /\ IsFetch(calls[error])
    /\ calls[error].status = "err"

\* The pull request is not Active: Ok without submission.
EndedNotActive ==
    /\ ~Submitted
    /\ result = "Ok"
    /\ pull_request.status # "Active"

\* A run that has returned ended in exactly one of the three ways.
OneOutcome ==
    pc = "done" =>
        \/ EndedSubmitted /\ ~EndedFetchError /\ ~EndedNotActive
        \/ ~EndedSubmitted /\ EndedFetchError /\ ~EndedNotActive
        \/ ~EndedSubmitted /\ ~EndedFetchError /\ EndedNotActive

\* C27 (termination): every gateway call returning a value or an error,
\* every run of add_reviewers returns, and a run that has returned has
\* submitted its list, or has aborted on a failed fetch before any
\* submission, or has returned Ok without submission on a pull request that
\* is not Active: one of the three and no two of them.
C27_Termination == <>(pc = "done") /\ [](OneOutcome) /\ [](pc = "done" => [](pc = "done"))

\* A run that went through the resolver and the required-reviewers roster
\* has submitted its list and returned.
C27_Witness ==
    /\ pc = "done"
    /\ Len(calls) >= 5
    /\ \E i \in 1 .. Len(calls) : calls[i].arg = required_reviewers_team_id
    /\ EndedSubmitted

(* ======================= the report: pull_requests ===================== *)
\* AzureReviewerRequestsProvider.repositories: the repositories are numbered.
NumRepos == 2

\* Length of the lists the pull-request endpoint answers with.
MaxPullRequests == 1

Repos == 1 .. NumRepos

\* Vote (api.rs).
Vote == {"Rejected", "WaitingForAuthor", "NoVote", "ApprovedWithSuggestions",
         "Approved"}

\* PullRequestReviewer as the report reads it; the name of a person is its
\* identifier.
VotingReviewer ==
    [id : Ids, is_required : BOOLEAN, vote : Vote, has_declined : BOOLEAN]

\* PullRequest as the report reads it: id, creation_date and reviewers.
ListedPullRequest ==
    [id : 1 .. MaxPullRequests, creation_date : 1 .. MaxPullRequests,
     reviewers : SeqsUpTo(VotingReviewer, MaxReviewers)]

\* Vec<PullRequest> answers of the pull-request endpoint: each pull request
\* once.
PullRequestLists ==
    {l \in SeqsUpTo(ListedPullRequest, MaxPullRequests) :
        \A i, j \in 1 .. Len(l) : l[i].id = l[j].id => i = j}

\* Vec<Team> answers of get_teams, by name: without the configured team,
\* with it, with it behind another one.
TeamLists ==
    {<<>>, <<DevTeamNames[1]>>, <<team_name>>, <<DevTeamNames[1], team_name>>}

\* Variant: the reviewer filter without the required flag.
should_be_shown_to_reviewer_optional(self, user_id) ==
    IF self.id # user_id \/ self.has_declined
    THEN FALSE
    ELSE self.vote \in {"NoVote", "WaitingForAuthor"}

\* PullRequestReviewer::should_be_shown_to_reviewer.
should_be_shown_to_reviewer(self, user_id) ==
    IF self.id # user_id \/ ~self.is_required \/ self.has_declined
    THEN FALSE
    ELSE CASE self.vote \in {"NoVote", "WaitingForAuthor"} -> TRUE
           [] self.vote \in {"Rejected", "Approved", "ApprovedWithSuggestions"}
                -> FALSE

\* PullRequestReviewer::should_be_shown_to_creator.
should_be_shown_to_creator(self) == self.vote = "WaitingForAuthor"

\* PullRequestSearchCriteria and the filter pull_requests passes with it.
Reviewer(member_id) == [criteria |-> "Reviewer", id |-> member_id]

Creator(member_id) == [criteria |-> "Creator", id |-> member_id]

Filter(search_criteria, r) ==
    IF search_criteria.criteria = "Reviewer"
    THEN should_be_shown_to_reviewer(r, search_criteria.id)
    ELSE should_be_shown_to_creator(r)

\* AzureApi::obtain_pull_requests on the list the endpoint answered with:
\* the pull requests one of whose reviewers passes the filter.
RECURSIVE obtain_pull_requests(_, _)
obtain_pull_requests(requests, search_criteria) ==
    IF requests = <<>> THEN <<>>
    ELSE (IF \E i \in 1 .. Len(Head(requests).reviewers) :
                Filter(search_criteria, Head(requests).reviewers[i])
          THEN <<Head(requests)>> ELSE <<>>)
         \o obtain_pull_requests(Tail(requests), search_criteria)

\* slice::sort_by(|a, b| a.creation_date.cmp(&b.creation_date)): stable.
RECURSIVE sort_by_creation_date(_)
sort_by_creation_date(s) ==
    IF s = <<>> THEN <<>>
    ELSE LET t == sort_by_creation_date(SubSeq(s, 1, Len(s) - 1))
             pr == s[Len(s)]
             k == Cardinality({i \in 1 .. Len(t) :
                                  t[i].creation_date <= pr.creation_date})
         IN  SubSeq(t, 1, k) \o <<pr>> \o SubSeq(t, k + 1, Len(t))

\* RepoRequests {repo_id, pull_requests}.
RepoRequests(repo_id, pull_requests) ==
    [repo_id |-> repo_id, pull_requests |-> pull_requests]

\* map_ok of one fetch: the filtered list, sorted, under its repository.
Fetched(repo_id, requests, search_criteria) ==
    RepoRequests(repo_id,
        sort_by_creation_date(obtain_pull_requests(requests, search_criteria)))

\* Variant: every repository is kept.
without_empty_keeps_all(list) == list

\* .filter(|r| !r.pull_requests.is_empty()).
without_empty(list) == SelectSeq(list, LAMBDA r : r.pull_requests # <<>>)

\* ReviewerRequests {reviewer_name, waiting_for_review, waiting_by_reviewers}.
ReviewerRequests(reviewer_name, for_review, by_reviewers) ==
    [reviewer_name |-> reviewer_name,
     waiting_for_review |-> without_empty(for_review),
     waiting_by_reviewers |-> without_empty(by_reviewers)]

\* The futures of try_join_all, none of them answered: the answers are
\* gathered under the index of their repository.
Pending == <<>>

Answered_repos(gathered) == DOMAIN gathered

(* -------------------------- report: gateway ---------------------------- *)
\* The gateway of the report: get_teams answers with one of the team lists,
\* team_members with one of the rosters, obtain_list of a repository's pull
\* requests with one of the lists, each of them or with an error.
ReportApi ==
    [get_teams |-> TeamLists,
     team_members |-> Rosters,
     pull_requests |-> PullRequestLists]

\* The command that sends the reports builds no AddReviewersServiceImpl.
NoService ==
    /\ config = None
    /\ is_on_vacation = {}
    /\ gateway = None
    /\ shuffle_teams = None
    /\ runs = 0
    /\ Constructed

\* State after AzureReviewerRequestsProvider::new: nothing fetched yet.
Provided ==
    /\ report_pc = "idle"
    /\ project_teams = Unfetched
    /\ dev_team_members = Unfetched
    /\ requests_iter = <<>>
    /\ member = None
    /\ waiting_for_review = <<>>
    /\ waiting_by_reviewers = <<>>
    /\ response = None
    /\ results = <<>>
    /\ outcomes = <<>>
    /\ report_result = "None"

(* -------------------------- report: actions ---------------------------- *)
service == <<config, is_on_vacation, pc, calls, all_members, pull_request,
             required_reviwers_left, team_index, members, team_members, team,
             required_reviewers, selected, new_reviewers, new_reviwers,
             shuffles, result, error, gateway, shuffle_teams, runs>>

\* The for loop takes the next request of requests_iter and awaits it: the
\* futures of `requests` are started; without a next request pull_requests
\* returns Ok(results).
Proceed(rest) ==
    IF rest = <<>>
    THEN /\ report_pc' = "returned"
         /\ report_result' = "Ok"
         /\ member' = None
         /\ requests_iter' = <<>>
         /\ waiting_for_review' = <<>>
         /\ waiting_by_reviewers' = <<>>
    ELSE /\ report_pc' = "requests"
         /\ report_result' = report_result
         /\ member' = Head(rest)
         /\ requests_iter' = Tail(rest)
         /\ waiting_for_review' = Pending
         /\ waiting_by_reviewers' = Pending

\* `?` on get_teams or team_members: pull_requests returns the error.
Abort ==
    /\ report_pc' = "returned"
    /\ report_result' = "Err"
    /\ UNCHANGED <<service, users, server, requests_iter, member,
                   waiting_for_review, waiting_by_reviewers, response, results,
                   outcomes>>

\* pull_requests is called: get_teams is awaited.
PullRequests ==
    /\ report_pc = "idle"
    /\ report_pc' = "get_teams"
    /\ UNCHANGED <<service, users, server, project_teams, dev_team_members,
                   requests_iter, member, waiting_for_review,
                   waiting_by_reviewers, response, results, outcomes,
                   report_result>>

\* get_teams answers and the configured team is in the list: its roster is
\* awaited.
GetTeamsOk ==
    /\ report_pc = "get_teams"
    /\ \E t \in server.get_teams :
        /\ team_name \in Range(t)
        /\ project_teams' = Ok(t)
    /\ report_pc' = "team_members"
    /\ UNCHANGED <<service, users, server, dev_team_members, requests_iter,
                   member, waiting_for_review, waiting_by_reviewers, response,
                   results, outcomes, report_result>>

\* get_teams answers without the configured team: Ok(vec![]).
TeamNotFound ==
    /\ report_pc = "get_teams"
    /\ \E t \in server.get_teams :
        /\ team_name \notin Range(t)
        /\ project_teams' = Ok(t)
    /\ report_pc' = "returned"
    /\ report_result' = "Ok"
    /\ UNCHANGED <<service, users, server, dev_team_members, requests_iter,
                   member, waiting_for_review, waiting_by_reviewers, response,
                   results, outcomes>>

GetTeamsErr ==
    /\ report_pc = "get_teams"
    /\ project_teams' = Err
    /\ UNCHANGED dev_team_members
    /\ Abort

\* team_members answers: the included members are asked in roster order.
TeamMembersOk ==
    /\ report_pc = "team_members"
    /\ \E r \in server.team_members :
        /\ dev_team_members' = Ok(r)
        /\ Proceed(FilterSeq(r, users))
    /\ UNCHANGED <<service, users, server, project_teams, response, results,
                   outcomes>>

TeamMembersErr ==
    /\ report_pc = "team_members"
    /\ dev_team_members' = Err
    /\ UNCHANGED project_teams
    /\ Abort

\* One of the fetches of try_join_all(requests) answers; with the last of
\* them and_then starts the fetches of waiting_by_reviewers.
RequestsOk ==
    /\ report_pc = "requests"
    /\ \E i \in Repos, l \in server.pull_requests :
        /\ i \notin Answered_repos(waiting_for_review)
        /\ response' = [repo_id |-> i, search_criteria |-> Reviewer(member),
                        value |-> l]
        /\ waiting_for_review' =
              (i :> Fetched(i, l, Reviewer(member))) @@ waiting_for_review
    /\ report_pc' = IF Answered_repos(waiting_for_review') = Repos
                    THEN "waiting_by_reviewers" ELSE "requests"
    /\ UNCHANGED <<service, users, server, project_teams, dev_team_members,
                   requests_iter, member, waiting_by_reviewers, results,
                   outcomes, report_result>>

\* The member request resolved to an error.
Dropped_member == [member |-> member, failed |-> TRUE, pending |-> FALSE]

\* Variant: the error of a member request is returned by pull_requests.
MemberErr_aborts ==
    /\ outcomes' = Append(outcomes, Dropped_member)
    /\ report_pc' = "returned"
    /\ report_result' = "Err"
    /\ UNCHANGED <<service, users, server, project_teams, dev_team_members,
                   requests_iter, member, waiting_for_review,
                   waiting_by_reviewers, response, results>>

\* Err(error) of the match: logged, the loop goes on with the next member.
MemberErr ==
    /\ outcomes' = Append(outcomes, Dropped_member)
    /\ Proceed(requests_iter)
    /\ UNCHANGED <<service, users, server, project_teams, dev_team_members,
                   response, results>>

\* One of the fetches of try_join_all(requests) fails: the others are
\* dropped and the member request resolves to the error.
RequestsErr ==
    /\ report_pc = "requests"
    /\ Answered_repos(waiting_for_review) # Repos
    /\ MemberErr

\* The match on Ok(r): r is pushed with something in one of its lists.
Resolve(r) ==
    IF r.waiting_for_review # <<>> \/ r.waiting_by_reviewers # <<>>
    THEN Append(results, r) ELSE results

\* One of the fetches of try_join_all(waiting_by_reviewers) answers; with the
\* last of them the member request resolves to Ok(ReviewerRequests).
WaitingByReviewersOk ==
    /\ report_pc = "waiting_by_reviewers"
    /\ \E i \in Repos, l \in server.pull_requests :
        /\ i \notin Answered_repos(waiting_by_reviewers)
        /\ response' = [repo_id |-> i, search_criteria |-> Creator(member),
                        value |-> l]
        /\ LET by_reviewers ==
                   (i :> Fetched(i, l, Creator(member))) @@ waiting_by_reviewers
           IN  IF Answered_repos(by_reviewers) # Repos
               THEN /\ waiting_by_reviewers' = by_reviewers
                    /\ UNCHANGED <<report_pc, report_result, member,
                                   requests_iter, waiting_for_review, results,
                                   outcomes>>
               ELSE /\ results' =
                          Resolve(ReviewerRequests(member, waiting_for_review,
                                                   by_reviewers))
                    /\ outcomes' = Append(outcomes,
                          [member |-> member, failed |-> FALSE,
                           pending |->
                              \E j \in Repos :
                                  \/ waiting_for_review[j].pull_requests # <<>>
                                  \/ by_reviewers[j].pull_requests # <<>>])
                    /\ Proceed(requests_iter)
    /\ UNCHANGED <<service, users, server, project_teams, dev_team_members>>

WaitingByReviewersErr ==
    /\ report_pc = "waiting_by_reviewers"
    /\ Answered_repos(waiting_by_reviewers) # Repos
    /\ MemberErr

\* The assertion of RepoRequests::format_for_creator.
format_for_creator_asserts(repository) == repository.pull_requests # <<>>

\* send_reports renders each returned value to a message (Display for
\* ReviewerRequests): format_for_creator panics on an empty repository.
Render ==
    /\ report_pc = "returned"
    /\ report_result = "Ok"
    /\ report_pc' =
          IF \A k \in 1 .. Len(results) :
                \A j \in 1 .. Len(results[k].waiting_by_reviewers) :
                    format_for_creator_asserts(
                        results[k].waiting_by_reviewers[j])
          THEN "rendered" ELSE "panicked"
    /\ UNCHANGED <<service, users, server, project_teams, dev_team_members,
                   requests_iter, member, waiting_for_review,
                   waiting_by_reviewers, response, results, outcomes,
                   report_result>>

NextReport ==
    \/ PullRequests
    \/ GetTeamsOk
    \/ TeamNotFound
    \/ GetTeamsErr
    \/ TeamMembersOk
    \/ TeamMembersErr
    \/ RequestsOk
    \/ RequestsErr
    \/ WaitingByReviewersOk
    \/ WaitingByReviewersErr
    \/ Render

\* The persons of the reduced gateway: the identifiers being interchangeable,
\* all but the last one.
Reported == Ids \ {NumIds - 1}

\* Its lists: pull requests with a required reviewer who has not declined
\* and who has not voted or waits for the author.
SampleLists ==
    {l \in PullRequestLists :
        \A i \in 1 .. Len(l) :
            /\ l[i].reviewers # <<>>
            /\ \A j \in 1 .. Len(l[i].reviewers) :
                  /\ l[i].reviewers[j].id \in Reported
                  /\ l[i].reviewers[j].is_required
                  /\ ~l[i].reviewers[j].has_declined
                  /\ l[i].reviewers[j].vote \in {"NoVote", "WaitingForAuthor"}}

SampleApi ==
    [ReportApi EXCEPT
        !.team_members = {r \in Rosters : Range(r) \subseteq Reported},
        !.pull_requests = SampleLists]

\* A report over any team list and the rosters of these persons, against
\* the reduced lists; person 1 may be missing from the Slack users.
InitReport ==
    /\ users \in {Reported, Reported \ {1}}
    /\ server = SampleApi
    /\ Provided
    /\ NoService

SpecReport == InitReport /\ [][NextReport]_vars

\* A report over a team of at most one member, the identifiers being
\* interchangeable always person 1, against every list.
InitFilter ==
    /\ users \in SUBSET {1}
    /\ server = [ReportApi EXCEPT !.team_members = {<<>>, <<1>>}]
    /\ Provided
    /\ NoService

SpecFilter == InitFilter /\ [][NextReport]_vars

ReportTypeOK ==
    /\ report_pc \in {"idle", "get_teams", "team_members", "requests",
                      "waiting_by_reviewers", "returned", "rendered",
                      "panicked"}
    /\ report_result \in {"None", "Ok", "Err"}
    /\ Len(outcomes) <= MaxRoster
    /\ Len(results) <= Len(outcomes)

(* ====================== properties of pull_requests ==================== *)
\* The names of the returned values, in order.
ReviewerNames == [k \in 1 .. Len(results) |-> results[k].reviewer_name]

\* The members whose request resolved, in order.
Resolved == [k \in 1 .. Len(outcomes) |-> outcomes[k].member]

\* The same, without the positions whose request failed or found nothing.
RECURSIVE WithPending(_)
WithPending(o) ==
    IF o = <<>> THEN <<>>
    ELSE (IF ~Head(o).failed /\ Head(o).pending
          THEN <<Head(o).member>> ELSE <<>>) \o WithPending(Tail(o))

\* pull_requests returned after the for loop.
LoopEnded ==
    /\ report_pc \in {"returned", "rendered", "panicked"}
    /\ project_teams.status = "ok"
    /\ team_name \in Range(project_teams.value)
    /\ dev_team_members.status = "ok"

\* C28: a failed get_teams or team_members ends pull_requests with the error
\* and nothing collected; a team list without the configured team ends it
\* with Ok(vec![]) and no roster fetched; after the for loop the call is Ok,
\* every included member of the roster was asked, in roster order, whatever
\* failed for the members before it, and the returned values are, in that
\* order, those of the members whose fetches all succeeded and found a
\* pull request.
C28_ErrorIsolation ==
    /\ (project_teams.status = "err" \/ dev_team_members.status = "err") =>
          /\ report_pc = "returned"
          /\ report_result = "Err"
          /\ results = <<>>
          /\ outcomes = <<>>
    /\ (/\ project_teams.status = "ok"
        /\ team_name \notin Range(project_teams.value)) =>
          /\ report_pc \in {"returned", "rendered"}
          /\ report_result = "Ok"
          /\ results = <<>>
          /\ dev_team_members = Unfetched
    /\ LoopEnded =>
          /\ report_result = "Ok"
          /\ Resolved = FilterSeq(dev_team_members.value, users)
          /\ ReviewerNames = WithPending(outcomes)

\* The first member's fetch failed and a later member is in the result.
C28_Witness ==
    /\ LoopEnded
    /\ Len(outcomes) = 2
    /\ outcomes[1].failed
    /\ outcomes[1].member # outcomes[2].member
    /\ ReviewerNames = <<outcomes[2].member>>

\* Every repository entry of the list has a pull request.
NoEmptyRepository(list) ==
    \A j \in 1 .. Len(list) : list[j].pull_requests # <<>>

\* C29: every value pushed to results has a repository entry in
\* waiting_for_review or in waiting_by_reviewers, every repository entry of
\* both lists has a pull request, and rendering the returned values never
\* trips the assertion of format_for_creator.
C29_NonEmpty ==
    /\ \A k \in 1 .. Len(results) :
          /\ \/ results[k].waiting_for_review # <<>>
             \/ results[k].waiting_by_reviewers # <<>>
          /\ NoEmptyRepository(results[k].waiting_for_review)
          /\ NoEmptyRepository(results[k].waiting_by_reviewers)
    /\ report_pc # "panicked"

\* Rendered: a value with one repository waiting for its creator, the other
\* repository having been dropped from that list, and a member with
\* nothing pending left out.
C29_Witness ==
    /\ report_pc = "rendered"
    /\ Len(outcomes) = 2
    /\ Len(results) = 1
    /\ ~outcomes[2].failed
    /\ Len(results[1].waiting_by_reviewers) = 1
    /\ results[1].waiting_for_review = <<>>

\* A reviewer entry of the pull request names the member, is required, has
\* not declined and has not voted or waits for the author.
WaitsForReview(pr, member_id) ==
    \E j \in 1 .. Len(pr.reviewers) :
        /\ pr.reviewers[j].id = member_id
        /\ pr.reviewers[j].is_required
        /\ ~pr.reviewers[j].has_declined
        /\ pr.reviewers[j].vote \in {"NoVote", "WaitingForAuthor"}

\* A reviewer of the pull request waits for the author.
WaitsForCreator(pr) ==
    \E j \in 1 .. Len(pr.reviewers) : pr.reviewers[j].vote = "WaitingForAuthor"

\* The pull requests a list of RepoRequests names, each with its repository.
Listing(list) ==
    UNION {{<<list[k].repo_id, pr>> : pr \in Range(list[k].pull_requests)} :
              k \in DOMAIN list}

\* The pull requests of an answer that are to be listed: by the criterion
\* of the answer, waiting for the member's review or for the creator.
ExpectedOf(answer) ==
    {<<answer.repo_id, pr>> : pr \in
        {p \in Range(answer.value) :
            IF answer.search_criteria.criteria = "Reviewer"
            THEN WaitsForReview(p, answer.search_criteria.id)
            ELSE WaitsForCreator(p)}}

\* The value pushed by the step, if it pushed one.
Pushed == {results'[k] : k \in (Len(results) + 1) .. Len(results')}

\* A step in which a fetch of `requests` answered.
ReviewAnswered ==
    /\ report_pc = "requests"
    /\ report_pc' \in {"requests", "waiting_by_reviewers"}
    /\ Len(outcomes') = Len(outcomes)

\* A step in which a fetch of `waiting_by_reviewers` answered and others
\* are still awaited.
CreatorAnswered ==
    /\ report_pc = "waiting_by_reviewers"
    /\ report_pc' = "waiting_by_reviewers"
    /\ Len(outcomes') = Len(outcomes)

\* A step in which the last fetch of a member answered.
MemberResolved ==
    /\ report_pc = "waiting_by_reviewers"
    /\ Len(outcomes') = Len(outcomes) + 1
    /\ ~outcomes'[Len(outcomes')].failed

\* C30: of the pull requests a fetch answers with, those gathered as waiting
\* for the member's review are the ones with a reviewer entry of the member
\* that is required, not declined, and has vote NoVote or WaitingForAuthor;
\* those gathered as waiting for the member as creator are the ones with a
\* reviewer whose vote is WaitingForAuthor; and the value of a member whose
\* fetches all answered lists exactly what was gathered.
C30_Listing ==
    /\ ReviewAnswered =>
          /\ response'.search_criteria = Reviewer(member)
          /\ Listing(waiting_for_review') =
                Listing(waiting_for_review) \cup ExpectedOf(response')
    /\ CreatorAnswered =>
          /\ response'.search_criteria = Creator(member)
          /\ Listing(waiting_by_reviewers') =
                Listing(waiting_by_reviewers) \cup ExpectedOf(response')
    /\ MemberResolved =>
          /\ response'.search_criteria = Creator(member)
          /\ \A r \in Pushed :
                /\ r.reviewer_name = member
                /\ Listing(r.waiting_for_review) = Listing(waiting_for_review)
                /\ Listing(r.waiting_by_reviewers) =
                      Listing(waiting_by_reviewers) \cup ExpectedOf(response')
          /\ Pushed = {} =>
                /\ Listing(waiting_for_review) = {}
                /\ Listing(waiting_by_reviewers) \cup ExpectedOf(response') = {}

C30_ReminderFilter == [][C30_Listing]_vars

\* A member is returned with a pull request in each list, and the last
\* answer held a pull request that is not listed although the member is one
\* of its required reviewers.
C30_Witness ==
    /\ report_pc = "returned"
    /\ Len(results) = 1
    /\ results[1].waiting_for_review # <<>>
    /\ Len(results[1].waiting_by_reviewers) = 1
    /\ response.value # <<>>
    /\ ExpectedOf(response) = {}
    /\ \E j \in 1 .. Len(response.value[1].reviewers) :
          /\ response.value[1].reviewers[j].id = results[1].reviewer_name
          /\ response.value[1].reviewers[j].is_required

====
